---- MODULE Spec2Model ----
(***************************************************************************)
(* A model of the xinu shell and script interpreter of                     *)
(* src/script_interpreter.c (declarations in src/interpreter.h and         *)
(* src/shell.h).                                                           *)
(*                                                                         *)
(* C strings are sequences of one-character strings.  Tables keep the      *)
(* zero-based slot numbers of the source; argv is the one exception: the   *)
(* sequence argv has C's argv[k] at position k + 1.                        *)
(***************************************************************************)
EXTENDS Integers, Sequences, FiniteSets, TLC

(***************************************************************************)
(* Sizes of the model.  MaxJobs stands for the 32 slots of shell_jobs[]    *)
(* and SHELL_HISTORY_SIZE for the 50 slots of the history ring, MaxEnv for *)
(* the 64 slots of shell_env[], SHELL_MAX_ALIAS for the 32 alias slots and *)
(* MaxCommands for the 128 slots of shell_commands[], of which shell_init  *)
(* fills 26.  MaxExec bounds the number of command lines executed,         *)
(* MaxParseLen the length of the lines split by themselves and             *)
(* MaxParseArgs the max_args they are split with, MaxExpandLen the length  *)
(* of the inputs expanded by themselves and MaxExpandSize the size of the  *)
(* buffer they are expanded into.  SCRIPT_MAX_VARS stands for the 128      *)
(* slots of a script context's vars[], and MaxScriptOps bounds the number  *)
(* of calls that change a script context (MaxRunOps where the calls run    *)
(* scripts), MaxGlobLen the length of the                                  *)
(* patterns and strings matched by themselves and MaxTestArgs the number   *)
(* of operands of a test evaluated by itself.  SCRIPT_MAX_FUNCS stands for *)
(* the 64 slots of funcs[], SCRIPT_MAX_LABELS for the 64 slots of labels[] *)
(* and SCRIPT_MAX_STACK for the 256 slots of call_stack[] and              *)
(* loop_stack[]; MaxBodies bounds the number of buffers getmem hands out   *)
(* for function bodies.                                                    *)
(***************************************************************************)
MaxJobs == 2
SHELL_HISTORY_SIZE == 3
MaxEnv == 2
SHELL_MAX_ALIAS == 2
MaxCommands == 28
MaxExec == 2
MaxParseLen == 4
MaxParseArgs == 4
MaxExpandLen == 4
MaxExpandSize == 5
SCRIPT_MAX_VARS == 2
MaxScriptOps == 4
MaxRunOps == 3
SCRIPT_MAX_FUNCS == 2
SCRIPT_MAX_LABELS == 2
SCRIPT_MAX_STACK == 2
MaxBodies == 3
MaxGlobLen == 3
MaxTestArgs == 3

(* Program constants. *)
OK == 1
SYSERR == -1
SHELL_OK == 0
SHELL_ERROR == 1
SHELL_NOT_FOUND == 127
SHELL_MAX_LINE == 256
SHELL_MAX_CMD == 64
SHELL_MAX_ARGS == 32
SCRIPT_VAR_NAME_LEN == 64
SCRIPT_VAR_VAL_LEN == 256

(* A null pointer, where the source returns a pointer into a table. *)
NULL == -1

VARIABLES
    shell_jobs,         \* shell_jobs[]: slot -> [id, pid, pgid, state, foreground]
    shell_job_count,    \* shell_job_count
    pc,                 \* where the shell's thread of control is
    cur,                \* the slot `job` points to in a suspended shell_fg / shell_bg
    via,                \* who called the suspended shell_fg / shell_bg
    last,               \* the step just taken: its operation and what it did
    history,            \* shell_state.history[]: slot -> [command, number]
    history_count,      \* shell_state.history_count
    history_index,      \* shell_state.history_index
    accepted,           \* the commands shell_history_add stored since the last
                        \* shell_init / shell_history_clear, oldest first, the
                        \* latest SHELL_HISTORY_SIZE of them
    last_exit,          \* shell_state.last_exit
    running,            \* shell_state.running
    interactive,        \* shell_state.interactive
    cwd,                \* shell_state.cwd
    shell_env,          \* shell_env[]: slot -> [name, value, defined]
    aliases,            \* shell_state.aliases[]: slot -> [name, value, defined]
    alias_count,        \* shell_state.alias_count
    shell_commands,     \* shell_commands[0 .. shell_command_count - 1], as a
                        \* sequence of [name, func]
    executed,           \* the number of calls of shell_execute made so far
    disp,               \* the dispatch of the shell_execute just called
    arg,                \* the arguments of the call of a function that is
                        \* studied by itself
    script_vars,        \* ctx->vars[]: slot -> [name, type, value, readonly,
                        \* defined]
    var_count,          \* ctx->var_count
    script_ops,         \* the number of calls made so far that change the
                        \* script context
    script_funcs,       \* ctx->funcs[]: slot -> [name, body, num_params,
                        \* defined], body the buffer it points to or NULL
    func_count,         \* ctx->func_count
    script_labels,      \* ctx->labels[]: slot -> [name, line_num, defined]
    label_count,        \* ctx->label_count
    line_num,           \* ctx->line_num
    script_running,     \* ctx->running
    exit_code,          \* ctx->exit_code
    loop_sp,            \* ctx->loop_sp
    call_sp,            \* ctx->call_sp
    call_stack,         \* ctx->call_stack[]
    loop_stack,         \* ctx->loop_stack[]
    script_fds,         \* ctx->stdin_fd, ctx->stdout_fd, ctx->stderr_fd
    heap,               \* the buffers of getmem: buffer -> [text, allocated,
                        \* frees], frees the number of calls of freemem on it
    ctx_live            \* whether the context is allocated: created and not
                        \* destroyed

jobvars == <<shell_jobs, shell_job_count, pc, cur, via>>

histvars == <<history, history_count, history_index, accepted>>

execvars == <<last_exit, running, interactive, cwd, shell_env, aliases,
              alias_count, shell_commands, executed, disp>>

argvars == <<arg>>

funcvars == <<script_funcs, func_count, heap, ctx_live>>

runvars == <<script_labels, label_count, line_num, script_running, exit_code,
             loop_sp, call_sp, call_stack, loop_stack, script_fds>>

scriptvars == <<script_vars, var_count, script_ops, funcvars, runvars>>

vars == <<shell_jobs, shell_job_count, pc, cur, via, last,
          history, history_count, history_index, accepted,
          last_exit, running, interactive, cwd, shell_env, aliases,
          alias_count, shell_commands, executed, disp, arg,
          script_vars, var_count, script_ops, funcvars, runvars>>

(* The record of a step: the operation, the value it returned (<<v>>, or   *)
(* NoRet when it returned nothing or has not returned yet) and the pids it *)
(* passed to resume().                                                     *)
NoRet == <<>>

Ret(v) == <<v>>

Step(op, r, rs) == [op |-> op, ret |-> r, resumes |-> rs]

(***************************************************************************)
(* The job table                                                           *)
(***************************************************************************)
JobSlots == 0 .. (MaxJobs - 1)

(* The pids of the processes that become jobs, and the pids the shell is   *)
(* asked about: 0 is the pid of no job.                                    *)
JobPids == {1, 2}

Pids == {0} \cup JobPids

(* shell_job_count is never decremented: the model stops creating jobs     *)
(* after this many.                                                        *)
MaxCreates == MaxJobs + 1

JobStates == {"JOB_RUNNING", "JOB_STOPPED", "JOB_DONE", "JOB_KILLED"}

(* A slot of shell_jobs[] after memset(shell_jobs, 0, ...): JOB_RUNNING is *)
(* the enumerator with value 0.                                            *)
ZeroJob == [id |-> 0, pid |-> 0, pgid |-> 0, state |-> "JOB_RUNNING",
            foreground |-> FALSE]

(* The first slot that satisfies P, NULL when none does: the scans       *)
(* `for (i = 0; i < 32; i++) if (...) return &shell_jobs[i];`            *)
FirstSlot(P(_)) ==
    IF \E i \in JobSlots : P(i)
    THEN CHOOSE i \in JobSlots : P(i) /\ \A j \in JobSlots : j < i => ~P(j)
    ELSE NULL

shell_job_find(jobs, id) ==
    LET Hit(i) == jobs[i].id = id IN FirstSlot(Hit)

shell_job_find_by_pid(jobs, pid) ==
    LET Hit(i) == jobs[i].pid = pid IN FirstSlot(Hit)

(* The slot shell_job_create takes: the test of its scan. *)
CreateReusable(job) == job.state = "JOB_DONE" \/ job.id = 0

shell_job_create(pid, foreground) ==
    /\ pc = "idle"
    /\ shell_job_count < MaxCreates
    /\ LET Free(i) == CreateReusable(shell_jobs[i])
           i == FirstSlot(Free)
       IN  IF i # NULL
           THEN /\ shell_jobs' = [shell_jobs EXCEPT ![i] =
                       [id |-> i + 1, pid |-> pid, pgid |-> pid,
                        state |-> "JOB_RUNNING", foreground |-> foreground]]
                /\ shell_job_count' = shell_job_count + 1
                /\ last' = Step("shell_job_create", Ret(i + 1), <<>>)
           ELSE /\ UNCHANGED <<shell_jobs, shell_job_count>>
                /\ last' = Step("shell_job_create", Ret(SYSERR), <<>>)
    /\ UNCHANGED <<pc, cur, via>>

(* The process layer's notification.  It runs whenever the shell is not   *)
(* running: between two calls and at the shell's suspension points.       *)
shell_job_update(id, state) ==
    /\ LET i == shell_job_find(shell_jobs, id)
       IN  IF i # NULL
           THEN shell_jobs' = [shell_jobs EXCEPT ![i].state = state]
           ELSE UNCHANGED shell_jobs
    /\ last' = Step("shell_job_update", NoRet, <<>>)
    /\ UNCHANGED <<shell_job_count, pc, cur, via>>

(* A shell_bg that resumes whatever the job's state is. *)
NeedsResumeAlways(job) == job.state \in JobStates

(* shell_bg and shell_fg call resume() only for a job in this state. *)
NeedsResume(job) == job.state = "JOB_STOPPED"

(* A shell_bg that forgets to clear the foreground flag. *)
BgWriteKeepsForeground(job) == [job EXCEPT !.state = "JOB_RUNNING"]

(* What shell_bg writes to the job after resume() has returned. *)
BgWrite(job) == [job EXCEPT !.state = "JOB_RUNNING", !.foreground = FALSE]

(* What shell_fg writes to the job before it waits. *)
FgWrite(job) == [job EXCEPT !.state = "JOB_RUNNING", !.foreground = TRUE]

(* A shell_wait_job that waits while the job is stopped instead. *)
WaitAgainWhileStopped(job) == job.state = "JOB_STOPPED"

(* The test of shell_wait_job's loop: yield again. *)
WaitAgain(job) == job.state = "JOB_RUNNING"

(* The value the caller of a completed shell_fg / shell_bg returns: the   *)
(* builtins cmd_fg and cmd_bg drop the status and return SHELL_OK.        *)
Returned(who, status) == IF who = "api" THEN status ELSE SHELL_OK

(* The shell's thread of control is back in the caller: the locals of    *)
(* the call are gone.                                                    *)
Return == pc' = "idle" /\ cur' = NULL /\ via' = "api"

(* The thread of control is suspended at `at`, inside a call made by who. *)
Suspend(at, i, who) == pc' = at /\ cur' = i /\ via' = who

(* shell_bg up to its return, or up to its suspension inside resume(). *)
BgCall(op, pid, who) ==
    LET i == shell_job_find_by_pid(shell_jobs, pid)
    IN  /\ UNCHANGED <<shell_jobs, shell_job_count>>
        /\ IF i = NULL
           THEN /\ Return
                /\ last' = Step(op, Ret(Returned(who, SYSERR)), <<>>)
           ELSE IF NeedsResume(shell_jobs[i])
           THEN /\ Suspend("bg_resume", i, who)
                /\ last' = Step(op, NoRet, <<pid>>)
           ELSE /\ Return
                /\ last' = Step(op, Ret(Returned(who, OK)), <<>>)

shell_bg(pid) ==
    /\ pc = "idle"
    /\ BgCall("shell_bg", pid, "api")

(* resume() returns into shell_bg. *)
bg_resumed ==
    /\ pc = "bg_resume"
    /\ shell_jobs' = [shell_jobs EXCEPT ![cur] = BgWrite(shell_jobs[cur])]
    /\ Return
    /\ last' = Step("bg_resumed", Ret(Returned(via, OK)), <<>>)
    /\ UNCHANGED shell_job_count

(* shell_fg from the write of the job `i` on: it enters shell_wait_job,   *)
(* which looks the job up by its id and yields while it is running.       *)
FgWait(op, i, who, rs) ==
    LET jobs1 == [shell_jobs EXCEPT ![i] = FgWrite(shell_jobs[i])]
        w == shell_job_find(jobs1, jobs1[i].id)
    IN  /\ shell_jobs' = jobs1
        /\ IF w # NULL /\ WaitAgain(jobs1[w])
           THEN /\ Suspend("fg_yield", w, who)
                /\ last' = Step(op, NoRet, rs)
           ELSE /\ Return
                /\ last' = Step(op, Ret(Returned(who, OK)), rs)

(* shell_fg up to its first suspension: inside resume() for a stopped job, *)
(* else inside shell_wait_job.                                             *)
FgCall(op, pid, who) ==
    LET i == shell_job_find_by_pid(shell_jobs, pid)
    IN  /\ UNCHANGED shell_job_count
        /\ IF i = NULL
           THEN /\ Return
                /\ last' = Step(op, Ret(Returned(who, SYSERR)), <<>>)
                /\ UNCHANGED shell_jobs
           ELSE IF NeedsResume(shell_jobs[i])
           THEN /\ Suspend("fg_resume", i, who)
                /\ last' = Step(op, NoRet, <<pid>>)
                /\ UNCHANGED shell_jobs
           ELSE FgWait(op, i, who, <<>>)

shell_fg(pid) ==
    /\ pc = "idle"
    /\ FgCall("shell_fg", pid, "api")

(* resume() returns into shell_fg. *)
fg_resumed ==
    /\ pc = "fg_resume"
    /\ FgWait("fg_resumed", cur, via, <<>>)
    /\ UNCHANGED shell_job_count

(* yield() returns into the loop of shell_wait_job. *)
shell_wait_job ==
    /\ pc = "fg_yield"
    /\ IF WaitAgain(shell_jobs[cur])
       THEN /\ UNCHANGED <<pc, cur, via>>
            /\ last' = Step("shell_wait_job", NoRet, <<>>)
       ELSE /\ Return
            /\ last' = Step("shell_wait_job", Ret(Returned(via, OK)), <<>>)
    /\ UNCHANGED <<shell_jobs, shell_job_count>>

(***************************************************************************)
(* C strings                                                               *)
(***************************************************************************)
(* What a failed lookup of a string returns: a null pointer. *)
NoString == <<"(null)">>

Min(a, b) == IF a < b THEN a ELSE b

(* strncpy(dst, src, n) into a buffer of at least n + 1 bytes whose byte n *)
(* is never written and is zero from initialisation: dst then holds the    *)
(* first n characters of src, or all of src when it is shorter.            *)
strncpy(src, n) == SubSeq(src, 1, Min(Len(src), n))

(* strcmp(a, b) == 0 *)
streq(a, b) == a = b

isdigit(c) == c \in {"0", "1", "2", "3", "4", "5", "6", "7", "8", "9"}

isspace(c) == c \in {" ", "\t", "\n", "\r"}

DigitVal(c) ==
    CASE c = "0" -> 0 [] c = "1" -> 1 [] c = "2" -> 2 [] c = "3" -> 3
      [] c = "4" -> 4 [] c = "5" -> 5 [] c = "6" -> 6 [] c = "7" -> 7
      [] c = "8" -> 8 [] c = "9" -> 9

RECURSIVE AtoiDigits(_, _, _)
AtoiDigits(s, k, acc) ==
    IF k <= Len(s) /\ isdigit(s[k])
    THEN AtoiDigits(s, k + 1, acc * 10 + DigitVal(s[k]))
    ELSE acc

RECURSIVE SkipSpace(_, _)
SkipSpace(s, k) ==
    IF k <= Len(s) /\ isspace(s[k]) THEN SkipSpace(s, k + 1) ELSE k

(* atoi: blanks, an optional sign, then decimal digits up to the first    *)
(* character that is none.                                                *)
atoi(s) ==
    LET k == SkipSpace(s, 1)
    IN  IF k <= Len(s) /\ s[k] = "-" THEN 0 - AtoiDigits(s, k + 1, 0)
        ELSE IF k <= Len(s) /\ s[k] = "+" THEN AtoiDigits(s, k + 1, 0)
        ELSE AtoiDigits(s, k, 0)

isalpha(c) ==
    c \in {"a", "b", "c", "d", "e", "f", "g", "h", "i", "j", "k", "l", "m",
           "n", "o", "p", "q", "r", "s", "t", "u", "v", "w", "x", "y", "z",
           "A", "B", "C", "D", "E", "F", "G", "H", "I", "J", "K", "L", "M",
           "N", "O", "P", "Q", "R", "S", "T", "U", "V", "W", "X", "Y", "Z"}

isalnum(c) == isalpha(c) \/ isdigit(c)

(* A blank of the command line: ' ' or '\t'. *)
isblank(c) == c \in {" ", "\t"}

(* The decimal digit of 0 .. 9. *)
DigitChar(n) ==
    CASE n = 0 -> "0" [] n = 1 -> "1" [] n = 2 -> "2" [] n = 3 -> "3"
      [] n = 4 -> "4" [] n = 5 -> "5" [] n = 6 -> "6" [] n = 7 -> "7"
      [] n = 8 -> "8" [] n = 9 -> "9"

RECURSIVE UtoA(_)
UtoA(n) ==
    IF n < 10 THEN <<DigitChar(n)>>
    ELSE Append(UtoA(n \div 10), DigitChar(n % 10))

(* snprintf(num, sizeof(num), "%d", n) for an int32 n: 16 bytes hold it. *)
itoa(n) == IF n < 0 THEN <<"-">> \o UtoA(0 - n) ELSE UtoA(n)

(***************************************************************************)
(* The environment table shell_env[]                                       *)
(***************************************************************************)
EnvSlots == 0 .. (MaxEnv - 1)

(* A slot of the zero-initialised static table. *)
ZeroEnv == [name |-> <<>>, value |-> <<>>, defined |-> FALSE]

(* The first slot of a table that satisfies P, NULL when none does. *)
FirstOf(slots, P(_)) ==
    IF \E i \in slots : P(i)
    THEN CHOOSE i \in slots : P(i) /\ \A j \in slots : j < i => ~P(j)
    ELSE NULL

EnvFind(env, name) ==
    LET Hit(i) == env[i].defined /\ streq(env[i].name, name)
    IN  FirstOf(EnvSlots, Hit)

shell_getenv(env, name) ==
    LET i == EnvFind(env, name)
    IN  IF i # NULL THEN env[i].value ELSE NoString

(* shell_setenv: the table after the call and the value returned. *)
shell_setenv(env, name, value) ==
    LET i == EnvFind(env, name)
        Undefined(k) == ~env[k].defined
        f == FirstOf(EnvSlots, Undefined)
    IN  IF i # NULL
        THEN [env |-> [env EXCEPT ![i].value = strncpy(value, 255)],
              ret |-> OK]
        ELSE IF f # NULL
        THEN [env |-> [env EXCEPT ![f] = [name |-> strncpy(name, 63),
                                          value |-> strncpy(value, 255),
                                          defined |-> TRUE]],
              ret |-> OK]
        ELSE [env |-> env, ret |-> SYSERR]

shell_unsetenv(env, name) ==
    LET i == EnvFind(env, name)
    IN  IF i # NULL
        THEN [env |-> [env EXCEPT ![i].defined = FALSE], ret |-> OK]
        ELSE [env |-> env, ret |-> SYSERR]

(***************************************************************************)
(* Expansion of a command line                                             *)
(***************************************************************************)
(* The character at position p of a C string, 1-based: the terminating     *)
(* NUL past its end.                                                       *)
NUL == "\\0"

CharAt(s, p) == IF p >= 1 /\ p <= Len(s) THEN s[p] ELSE NUL

(* The first position from p on that satisfies Hit, the position of the    *)
(* terminating NUL when none does.                                         *)
NextPos(s, p, Hit(_)) ==
    LET hits == {k \in p .. Len(s) : Hit(k)}
    IN  IF hits = {} THEN Len(s) + 1
        ELSE CHOOSE k \in hits : \A j \in hits : k <= j

(* `if (i + len < size - 1) { strcpy(output + i, text); i += len; }`      *)
PutIfFits(out, text, size) ==
    IF Len(out) + Len(text) < size - 1 THEN out \o text ELSE out

(* The scan of a variable name that starts at q with j characters read:    *)
(* the name and the position after it.                                     *)
RECURSIVE ScanName(_, _, _, _)
ScanName(input, q, name, in_braces) ==
    IF q > Len(input) \/ Len(name) >= 63
    THEN [name |-> name, p |-> q]
    ELSE IF in_braces /\ input[q] = "}"
    THEN [name |-> name, p |-> q + 1]
    ELSE IF ~in_braces /\ ~isalnum(input[q]) /\ input[q] # "_"
    THEN [name |-> name, p |-> q]
    ELSE ScanName(input, q + 1, Append(name, input[q]), in_braces)

(* The loop of shell_expand from position p of the input on, with out      *)
(* written so far.  The characters up to the next `$` or substituted `~`   *)
(* are copied one by one while there is room: as many of them as fit.      *)
RECURSIVE ExpandFrom(_, _, _, _, _, _, _)
ExpandFrom(input, p, out, size, env, last_exit_, pid_) ==
    IF p > Len(input) \/ ~(Len(out) < size - 1)
    THEN out
    ELSE IF input[p] = "$"
    THEN IF CharAt(input, p + 1) = "?"
         THEN ExpandFrom(input, p + 2, PutIfFits(out, itoa(last_exit_), size),
                         size, env, last_exit_, pid_)
         ELSE IF CharAt(input, p + 1) = "$"
         THEN ExpandFrom(input, p + 2, PutIfFits(out, itoa(pid_), size),
                         size, env, last_exit_, pid_)
         ELSE LET in_braces == CharAt(input, p + 1) = "{"
                  n == ScanName(input, IF in_braces THEN p + 2 ELSE p + 1,
                                <<>>, in_braces)
                  value == shell_getenv(env, n.name)
              IN  ExpandFrom(input, n.p,
                             IF value # NoString
                             THEN PutIfFits(out, value, size) ELSE out,
                             size, env, last_exit_, pid_)
    ELSE IF input[p] = "~" /\ (p = 1 \/ input[p - 1] \in {" ", ":"})
    THEN LET h == shell_getenv(env, <<"H", "O", "M", "E">>)
             home == IF h = NoString THEN <<"/">> ELSE h
         IN  ExpandFrom(input, p + 1, PutIfFits(out, home, size),
                        size, env, last_exit_, pid_)
    ELSE LET Special(k) ==
                 \/ input[k] = "$"
                 \/ input[k] = "~" /\ input[k - 1] \in {" ", ":"}
             q == NextPos(input, p + 1, Special)
             n == Min(q - p, size - 1 - Len(out))
         IN  ExpandFrom(input, p + n, out \o SubSeq(input, p, p + n - 1),
                        size, env, last_exit_, pid_)

(* The text shell_expand leaves in output; it returns OK in every case. *)
shell_expand(input, size, env, last_exit_, pid_) ==
    ExpandFrom(input, 1, <<>>, size, env, last_exit_, pid_)

(***************************************************************************)
(* Splitting of a command line                                             *)
(***************************************************************************)
(* The inner loop of shell_parse_line: the token that starts at p, and     *)
(* the position and quote state at its end.  A character that is neither   *)
(* a backslash, a quote nor a blank is kept, and so are those after it up  *)
(* to the next of these.                                                   *)
(* A splitter in which either quote character closes a quoted span. *)
ClosesQuoteAny(c, quote_char) == c \in {"\"", "'"}

(* `*p == quote_char`, of a quote character met inside a quoted span. *)
ClosesQuote(c, quote_char) == c = quote_char

RECURSIVE ParseToken(_, _, _, _, _)
ParseToken(line, p, tok, in_quote, quote_char) ==
    IF p > Len(line)
    THEN [tok |-> tok, p |-> p, in_quote |-> in_quote,
          quote_char |-> quote_char]
    ELSE IF line[p] = "\\" /\ p + 1 <= Len(line)
    THEN ParseToken(line, p + 2, Append(tok, line[p + 1]), in_quote,
                    quote_char)
    ELSE IF line[p] \in {"\"", "'"} /\ ~in_quote
    THEN ParseToken(line, p + 1, tok, TRUE, line[p])
    ELSE IF line[p] \in {"\"", "'"} /\ ClosesQuote(line[p], quote_char)
    THEN ParseToken(line, p + 1, tok, FALSE, quote_char)
    ELSE IF ~in_quote /\ isblank(line[p])
    THEN [tok |-> tok, p |-> p, in_quote |-> in_quote,
          quote_char |-> quote_char]
    ELSE LET Special(k) == line[k] \in {"\\", "\"", "'", " ", "\t"}
             q == NextPos(line, p + 1, Special)
         IN  ParseToken(line, q, tok \o SubSeq(line, p, q - 1), in_quote,
                        quote_char)

(* The position of the first character from k on that is no blank. *)
SkipBlank(s, k) ==
    LET NotBlank(j) == ~isblank(s[j]) IN NextPos(s, k, NotBlank)

(* The outer loop of shell_parse_line from position p on. *)
RECURSIVE ParseFrom(_, _, _, _, _, _)
ParseFrom(line, p, argv, max_args, in_quote, quote_char) ==
    IF p > Len(line) \/ ~(Len(argv) < max_args - 1)
    THEN argv
    ELSE LET q == SkipBlank(line, p)
         IN  IF q > Len(line) THEN argv
             ELSE IF line[q] = "#" /\ ~in_quote THEN argv
             ELSE LET t == ParseToken(line, q, <<>>, in_quote, quote_char)
                  IN  ParseFrom(line,
                                IF t.p <= Len(line) THEN t.p + 1 ELSE t.p,
                                Append(argv, t.tok), max_args,
                                t.in_quote, t.quote_char)

(* argv[0 .. argc - 1] as shell_parse_line leaves it; argc is its length. *)
shell_parse_line(line, max_args) ==
    ParseFrom(line, 1, <<>>, max_args, FALSE, NUL)

(* argv[] after shell_parse_line, on the slots the call writes: a token in *)
(* each of argv[0 .. argc - 1] and the null pointer in argv[argc].         *)
ParseArgv(line, max_args) ==
    LET av == shell_parse_line(line, max_args)
    IN  [i \in 0 .. Len(av) |-> IF i < Len(av) THEN av[i + 1] ELSE NoString]

(***************************************************************************)
(* The job-control builtins                                                *)
(***************************************************************************)
(* The job id cmd_fg and cmd_bg look up. *)
JobIdArg(argv) == IF Len(argv) < 2 THEN shell_job_count ELSE atoi(argv[2])

(* cmd_fg, called directly (who = "builtin") or by shell_execute. *)
CmdFg(argv, who) ==
    LET i == shell_job_find(shell_jobs, JobIdArg(argv))
    IN  IF i = NULL
        THEN /\ Return
             /\ last' = Step("cmd_fg", Ret(SHELL_ERROR), <<>>)
             /\ UNCHANGED <<shell_jobs, shell_job_count>>
        ELSE FgCall("cmd_fg", shell_jobs[i].pid, who)

cmd_fg(argv) == CmdFg(argv, "builtin")

(* cmd_bg, called directly (who = "builtin") or by shell_execute. *)
CmdBg(argv, who) ==
    LET i == shell_job_find(shell_jobs, JobIdArg(argv))
    IN  IF i = NULL
        THEN /\ Return
             /\ last' = Step("cmd_bg", Ret(SHELL_ERROR), <<>>)
             /\ UNCHANGED <<shell_jobs, shell_job_count>>
        ELSE BgCall("cmd_bg", shell_jobs[i].pid, who)

cmd_bg(argv) == CmdBg(argv, "builtin")

(***************************************************************************)
(* The command history                                                     *)
(***************************************************************************)
HistSlots == 0 .. (SHELL_HISTORY_SIZE - 1)

(* A ring lookup that counts from the write cursor. *)
HistoryActualFromCursor(index, count, i) ==
    (index + i) % SHELL_HISTORY_SIZE

(* The ring slot of the logical index i. *)
HistoryActual(index, count, i) ==
    (index - count + i + SHELL_HISTORY_SIZE) % SHELL_HISTORY_SIZE

(* A guard that lets the index count through. *)
HistoryInRangeOffByOne(i, count) == ~(i < 0 \/ i > count)

(* The guard of shell_history_get: the index is one of an entry. *)
HistoryInRange(i, count) == ~(i < 0 \/ i >= count)

HistoryGet(hist, index, count, i) ==
    IF HistoryInRange(i, count)
    THEN hist[HistoryActual(index, count, i)].command
    ELSE NoString

shell_history_get(i) == HistoryGet(history, history_index, history_count, i)

(* The slot of the entry stored last. *)
HistoryLast(index) == (index - 1 + SHELL_HISTORY_SIZE) % SHELL_HISTORY_SIZE

(* The history part of shell_state, with the record of what it was given. *)
HistRec == [history |-> history, count |-> history_count,
            index |-> history_index, accepted |-> accepted]

(* shell_history_add returns without storing cmd. *)
HistoryIgnored(h, cmd) ==
    \/ cmd = <<>>
    \/ /\ h.count > 0
       /\ streq(h.history[HistoryLast(h.index)].command, cmd)

(* The text a history slot holds after cmd has been stored in it. *)
HistoryStored(cmd) == strncpy(cmd, SHELL_MAX_LINE - 1)

(* The latest SHELL_HISTORY_SIZE elements of a sequence. *)
Latest(seq) ==
    IF Len(seq) <= SHELL_HISTORY_SIZE THEN seq
    ELSE SubSeq(seq, Len(seq) - SHELL_HISTORY_SIZE + 1, Len(seq))

(* The history after shell_history_add(cmd). *)
HistoryAdded(h, cmd) ==
    IF HistoryIgnored(h, cmd) THEN h
    ELSE [history |-> [h.history EXCEPT ![h.index] =
                          [command |-> HistoryStored(cmd),
                           number |-> h.count]],
          index |-> (h.index + 1) % SHELL_HISTORY_SIZE,
          count |-> IF h.count < SHELL_HISTORY_SIZE THEN h.count + 1
                    ELSE h.count,
          accepted |-> Latest(Append(h.accepted, cmd))]

(* The history after shell_history_clear(). *)
HistoryCleared(h) ==
    [h EXCEPT !.count = 0, !.index = 0, !.accepted = <<>>]

HistoryBecomes(h) ==
    /\ history' = h.history
    /\ history_count' = h.count
    /\ history_index' = h.index
    /\ accepted' = h.accepted

(* The record of a history step: the command passed, the most recent       *)
(* entry before the step, and the most recent entry that a                 *)
(* shell_history_clear just before the step dropped.                       *)
HistStep(op, cmd) ==
    [op |-> op, cmd |-> cmd,
     prev |-> shell_history_get(history_count - 1),
     dropped |-> IF last.op = "shell_history_clear" THEN last.prev
                 ELSE NoString]

shell_history_add(cmd) ==
    /\ HistoryBecomes(HistoryAdded(HistRec, cmd))
    /\ last' = HistStep("shell_history_add", cmd)

shell_history_clear ==
    /\ HistoryBecomes(HistoryCleared(HistRec))
    /\ last' = HistStep("shell_history_clear", NoString)

HistInit ==
    /\ history = [i \in HistSlots |-> [command |-> <<>>, number |-> 0]]
    /\ history_count = 0
    /\ history_index = 0
    /\ accepted = <<>>

(***************************************************************************)
(* The alias table                                                         *)
(***************************************************************************)
AliasSlots == 0 .. (SHELL_MAX_ALIAS - 1)

AliasFind(al, name) ==
    LET Hit(i) == al[i].defined /\ streq(al[i].name, name)
    IN  FirstOf(AliasSlots, Hit)

(* shell_alias_set on the record [aliases, alias_count]: the record after  *)
(* the call and the value returned.                                        *)
shell_alias_set(a, name, value) ==
    LET i == AliasFind(a.aliases, name)
        Undefined(k) == ~a.aliases[k].defined
        f == FirstOf(AliasSlots, Undefined)
    IN  IF i # NULL
        THEN [a |-> [a EXCEPT !.aliases[i].value =
                                  strncpy(value, SHELL_MAX_LINE - 1)],
              ret |-> OK]
        ELSE IF f # NULL
        THEN [a |-> [aliases |-> [a.aliases EXCEPT ![f] =
                         [name |-> strncpy(name, SHELL_MAX_CMD - 1),
                          value |-> strncpy(value, SHELL_MAX_LINE - 1),
                          defined |-> TRUE]],
                     alias_count |-> a.alias_count + 1],
              ret |-> OK]
        ELSE [a |-> a, ret |-> SYSERR]

shell_alias_get(al, name) ==
    LET i == AliasFind(al, name)
    IN  IF i # NULL THEN al[i].value ELSE NoString

shell_alias_remove(a, name) ==
    LET i == AliasFind(a.aliases, name)
    IN  IF i # NULL
        THEN [a |-> [aliases |-> [a.aliases EXCEPT ![i].defined = FALSE],
                     alias_count |-> a.alias_count - 1],
              ret |-> OK]
        ELSE [a |-> a, ret |-> SYSERR]

(***************************************************************************)
(* The command registry                                                    *)
(***************************************************************************)
(* An entry of shell_commands[]: the handler is named by its function. *)
Command(name, func) == [name |-> strncpy(name, SHELL_MAX_CMD - 1),
                        func |-> func]

(* The table after shell_builtin_init. *)
shell_builtin_init ==
    <<
      Command(<<"h", "e", "l", "p">>, "cmd_help"),
      Command(<<"e", "x", "i", "t">>, "cmd_exit"),
      Command(<<"q", "u", "i", "t">>, "cmd_exit"),
      Command(<<"c", "d">>, "cmd_cd"),
      Command(<<"p", "w", "d">>, "cmd_pwd"),
      Command(<<"e", "c", "h", "o">>, "cmd_echo"),
      Command(<<"c", "l", "e", "a", "r">>, "cmd_clear"),
      Command(<<"s", "e", "t">>, "cmd_set"),
      Command(<<"u", "n", "s", "e", "t">>, "cmd_unset"),
      Command(<<"e", "x", "p", "o", "r", "t">>, "cmd_export"),
      Command(<<"e", "n", "v">>, "cmd_env"),
      Command(<<"a", "l", "i", "a", "s">>, "cmd_alias"),
      Command(<<"u", "n", "a", "l", "i", "a", "s">>, "cmd_unalias"),
      Command(<<"h", "i", "s", "t", "o", "r", "y">>, "cmd_history"),
      Command(<<"p", "s">>, "cmd_ps"),
      Command(<<"k", "i", "l", "l">>, "cmd_kill"),
      Command(<<"j", "o", "b", "s">>, "cmd_jobs"),
      Command(<<"f", "g">>, "cmd_fg"),
      Command(<<"b", "g">>, "cmd_bg"),
      Command(<<"m", "e", "m">>, "cmd_mem"),
      Command(<<"s", "l", "e", "e", "p">>, "cmd_sleep"),
      Command(<<"t", "i", "m", "e">>, "cmd_time"),
      Command(<<"t", "e", "s", "t">>, "cmd_test"),
      Command(<<"[">>, "cmd_test"),
      Command(<<"t", "r", "u", "e">>, "cmd_true"),
      Command(<<"f", "a", "l", "s", "e">>, "cmd_false")
    >>

(* shell_register_command: the table after the call and the value          *)
(* returned.                                                               *)
shell_register_command(cmds, name, func) ==
    IF Len(cmds) >= MaxCommands
    THEN [cmds |-> cmds, ret |-> SYSERR]
    ELSE [cmds |-> Append(cmds, Command(name, func)), ret |-> OK]

(* A lookup that returns the entry registered last under the name. *)
FindLatestCommand(cmds, name) ==
    LET hits == {i \in 1 .. Len(cmds) : streq(cmds[i].name, name)}
    IN  IF hits = {} THEN NULL
        ELSE CHOOSE i \in hits : \A j \in hits : j <= i

(* The position in the table of the entry shell_find_command returns,      *)
(* NULL when it returns a null pointer.                                    *)
shell_find_command(cmds, name) ==
    LET Hit(i) == streq(cmds[i].name, name)
    IN  FirstOf(1 .. Len(cmds), Hit)

(***************************************************************************)
(* shell_execute and the builtins                                          *)
(***************************************************************************)
(* The pid of the shell: getpid() returns currpid. *)
currpid == 0

(* The state a command line works on. *)
ShellRec ==
    [last_exit |-> last_exit, running |-> running,
     interactive |-> interactive, cwd |-> cwd, env |-> shell_env,
     al |-> [aliases |-> aliases, alias_count |-> alias_count],
     hist |-> HistRec, cmds |-> shell_commands,
     calls |-> <<>>]

(* The handler has returned (tail is empty), or it has entered shell_fg /  *)
(* shell_bg as its last act (tail names the handler and its argv).         *)
NoTail == <<>>

Done(sh, ret) == [sh |-> sh, ret |-> ret, tail |-> NoTail]

(* The words argv[from ..] joined by single blanks: cmd_time's strcat loop. *)
RECURSIVE Join(_, _)
Join(argv, from) ==
    IF from > Len(argv) THEN <<>>
    ELSE IF from = Len(argv) THEN argv[from]
    ELSE argv[from] \o <<" ">> \o Join(argv, from + 1)

(* The position of the first c in s, 0 when there is none: strchr. *)
RECURSIVE StrChr(_, _, _)
StrChr(s, c, k) ==
    IF k > Len(s) THEN 0 ELSE IF s[k] = c THEN k ELSE StrChr(s, c, k + 1)

(* The status of a test, were success and failure exchanged. *)
StatusSwapped(b) == IF b THEN SHELL_ERROR ELSE SHELL_OK

Status(b) == IF b THEN SHELL_OK ELSE SHELL_ERROR

(* cmd_test on argv: argv[k] of the source is argv[k + 1] here. *)
cmd_test(argv) ==
    LET argc0 == Len(argv)
        argc == IF /\ streq(argv[1], <<"[">>)
                   /\ argc0 > 1
                   /\ streq(argv[argc0], <<"]">>)
                THEN argc0 - 1 ELSE argc0
        op == argv[3]
    IN  IF argc0 < 2 THEN SHELL_ERROR
        ELSE IF argc = 2 THEN Status(Len(argv[2]) > 0)
        ELSE IF argc = 3 /\ streq(argv[2], <<"-", "n">>)
        THEN Status(Len(argv[3]) > 0)
        ELSE IF argc = 3 /\ streq(argv[2], <<"-", "z">>)
        THEN Status(Len(argv[3]) = 0)
        ELSE IF argc = 4 /\ (streq(op, <<"=">>) \/ streq(op, <<"=", "=">>))
        THEN Status(streq(argv[2], argv[4]))
        ELSE IF argc = 4 /\ streq(op, <<"!", "=">>)
        THEN Status(~streq(argv[2], argv[4]))
        ELSE IF argc = 4 /\ streq(op, <<"-", "e", "q">>)
        THEN Status(atoi(argv[2]) = atoi(argv[4]))
        ELSE IF argc = 4 /\ streq(op, <<"-", "n", "e">>)
        THEN Status(atoi(argv[2]) # atoi(argv[4]))
        ELSE IF argc = 4 /\ streq(op, <<"-", "l", "t">>)
        THEN Status(atoi(argv[2]) < atoi(argv[4]))
        ELSE IF argc = 4 /\ streq(op, <<"-", "l", "e">>)
        THEN Status(atoi(argv[2]) <= atoi(argv[4]))
        ELSE IF argc = 4 /\ streq(op, <<"-", "g", "t">>)
        THEN Status(atoi(argv[2]) > atoi(argv[4]))
        ELSE IF argc = 4 /\ streq(op, <<"-", "g", "e">>)
        THEN Status(atoi(argv[2]) >= atoi(argv[4]))
        ELSE SHELL_ERROR

cmd_exit(sh, argv) ==
    LET status == IF Len(argv) > 1 THEN atoi(argv[2]) ELSE SHELL_OK
    IN  Done([sh EXCEPT !.running = FALSE, !.last_exit = status], status)

cmd_cd(sh, argv) ==
    LET home == shell_getenv(sh.env, <<"H", "O", "M", "E">>)
        dir == IF Len(argv) < 2
               THEN (IF home = NoString THEN <<"/">> ELSE home)
               ELSE argv[2]
        to == strncpy(dir, 255)
    IN  Done([sh EXCEPT !.cwd = to,
                        !.env = shell_setenv(sh.env, <<"P", "W", "D">>, to).env],
             SHELL_OK)

cmd_set(sh, argv) ==
    IF Len(argv) < 3 THEN Done(sh, SHELL_OK)
    ELSE LET r == shell_setenv(sh.env, argv[2], argv[3])
         IN  Done([sh EXCEPT !.env = r.env], r.ret)

cmd_unset(sh, argv) ==
    IF Len(argv) < 2 THEN Done(sh, SHELL_ERROR)
    ELSE LET r == shell_unsetenv(sh.env, argv[2])
         IN  Done([sh EXCEPT !.env = r.env], r.ret)

cmd_export(sh, argv) ==
    IF Len(argv) < 2 THEN Done(sh, SHELL_OK)
    ELSE LET eq == StrChr(argv[2], "=", 1)
         IN  IF eq = 0 THEN Done(sh, SHELL_OK)
             ELSE Done([sh EXCEPT !.env =
                           shell_setenv(sh.env, SubSeq(argv[2], 1, eq - 1),
                                        SubSeq(argv[2], eq + 1, Len(argv[2]))).env],
                       SHELL_OK)

cmd_alias(sh, argv) ==
    IF Len(argv) < 3 THEN Done(sh, SHELL_OK)
    ELSE LET r == shell_alias_set(sh.al, argv[2], argv[3])
         IN  Done([sh EXCEPT !.al = r.a], r.ret)

cmd_unalias(sh, argv) ==
    IF Len(argv) < 2 THEN Done(sh, SHELL_ERROR)
    ELSE LET r == shell_alias_remove(sh.al, argv[2])
         IN  Done([sh EXCEPT !.al = r.a], r.ret)

cmd_history(sh, argv) ==
    IF Len(argv) > 1 /\ streq(argv[2], <<"-", "c">>)
    THEN Done([sh EXCEPT !.hist = HistoryCleared(sh.hist)], SHELL_OK)
    ELSE Done(sh, SHELL_OK)

(* kill() of the process layer returns OK. *)
cmd_kill(sh, argv) ==
    IF Len(argv) < 2 THEN Done(sh, SHELL_ERROR) ELSE Done(sh, SHELL_OK)

cmd_sleep(sh, argv) ==
    IF Len(argv) < 2 THEN Done(sh, SHELL_ERROR) ELSE Done(sh, SHELL_OK)

(* The handlers that print and return SHELL_OK. *)
Printers == {"cmd_help", "cmd_pwd", "cmd_echo", "cmd_clear", "cmd_env",
             "cmd_ps", "cmd_jobs", "cmd_mem"}

(* A shell_execute that does not store the handler's return value. *)
DispatchedKeepsStatus(sh, ret) == sh

(* `shell_state.last_exit = cmd->func(argc, argv);` *)
Dispatched(sh, ret) == [sh EXCEPT !.last_exit = ret]

(* A shell_execute that reports an unknown command as an ordinary failure. *)
NotFoundAsError(sh) == [sh EXCEPT !.last_exit = SHELL_ERROR]

(* `shell_state.last_exit = SHELL_NOT_FOUND;` *)
NotFound(sh) == [sh EXCEPT !.last_exit = SHELL_NOT_FOUND]

(* The text shell_execute splits: the first SHELL_MAX_LINE - 1 characters  *)
(* of the line, expanded into a buffer of SHELL_MAX_LINE bytes.            *)
ExecExpanded(sh, line) ==
    shell_expand(strncpy(line, SHELL_MAX_LINE - 1), SHELL_MAX_LINE,
                 sh.env, sh.last_exit, currpid)

ExecArgv(sh, line) == shell_parse_line(ExecExpanded(sh, line), SHELL_MAX_ARGS)

(* shell_execute returns SHELL_OK before it looks at the line: the line is *)
(* blank or a comment.                                                     *)
ExecSkipped(line) ==
    LET p == SkipBlank(line, 1)
    IN  p > Len(line) \/ line[p] = "#"

RECURSIVE ExecLine(_, _, _)
RECURSIVE RunHandler(_, _, _, _)
(* The call cmd->func(argc, argv) made by the shell_execute at nesting     *)
(* depth `depth`.                                                          *)
RunHandler(func, sh, argv, depth) ==
    CASE func \in Printers -> Done(sh, SHELL_OK)
      [] func = "cmd_true" -> Done(sh, SHELL_OK)
      [] func = "cmd_false" -> Done(sh, SHELL_ERROR)
      [] func = "cmd_test" -> Done(sh, cmd_test(argv))
      [] func = "cmd_exit" -> cmd_exit(sh, argv)
      [] func = "cmd_cd" -> cmd_cd(sh, argv)
      [] func = "cmd_set" -> cmd_set(sh, argv)
      [] func = "cmd_unset" -> cmd_unset(sh, argv)
      [] func = "cmd_export" -> cmd_export(sh, argv)
      [] func = "cmd_alias" -> cmd_alias(sh, argv)
      [] func = "cmd_unalias" -> cmd_unalias(sh, argv)
      [] func = "cmd_history" -> cmd_history(sh, argv)
      [] func = "cmd_kill" -> cmd_kill(sh, argv)
      [] func = "cmd_sleep" -> cmd_sleep(sh, argv)
      [] func = "cmd_time" ->
            IF Len(argv) < 2 THEN Done(sh, SHELL_ERROR)
            ELSE ExecLine(sh, Join(argv, 2), depth + 1)
      [] func \in {"cmd_fg", "cmd_bg"} ->
            [sh |-> sh, ret |-> SHELL_OK, tail |-> <<func, argv>>]

(* The handler called as the n-th has come back with r: shell_execute      *)
(* stores and returns its value, unless the handler is suspended.          *)
ExecReturned(r, n) ==
    IF r.tail = NoTail
    THEN Done(Dispatched([r.sh EXCEPT !.calls[n].ret = Ret(r.ret)], r.ret),
              r.ret)
    ELSE r

(* shell_execute from the lookup of argv[0] on: k is what                  *)
(* shell_find_command returned.                                            *)
ExecDispatch(sh, argv, k, depth) ==
    IF k # NULL
    THEN ExecReturned(
             RunHandler(sh.cmds[k].func,
                        [sh EXCEPT !.calls =
                            Append(@, [func |-> sh.cmds[k].func,
                                       depth |-> depth, ret |-> NoRet])],
                        argv, depth),
             Len(sh.calls) + 1)
    ELSE Done(NotFound(sh), SHELL_NOT_FOUND)

(* shell_execute from the split line on. *)
ExecParsed(sh, argv, depth) ==
    IF Len(argv) = 0 THEN Done(sh, SHELL_OK)
    ELSE ExecDispatch(sh, argv, shell_find_command(sh.cmds, argv[1]), depth)

(* shell_execute after the line has gone to the history. *)
ExecRecorded(sh, line, depth) == ExecParsed(sh, ExecArgv(sh, line), depth)

(* shell_execute(line) at nesting depth `depth`: the state it leaves, the  *)
(* value it returns and, when its handler has entered shell_fg / shell_bg, *)
(* that handler.  sh.calls lists the handlers called, in the order of the  *)
(* calls, each with the depth of the shell_execute that called it and the  *)
(* value it returned.                                                      *)
ExecLine(sh, line, depth) ==
    IF ExecSkipped(line) THEN Done(sh, SHELL_OK)
    ELSE ExecRecorded(IF sh.interactive
                      THEN [sh EXCEPT !.hist = HistoryAdded(sh.hist, line)]
                      ELSE sh,
                      line, depth)

(* No shell_execute has just been called. *)
NoDisp == [op |-> "none", line |-> <<>>, calls |-> <<>>, hret |-> NoRet]

ShellBecomes(sh) ==
    /\ running' = sh.running
    /\ interactive' = sh.interactive
    /\ cwd' = sh.cwd
    /\ shell_env' = sh.env
    /\ aliases' = sh.al.aliases
    /\ alias_count' = sh.al.alias_count
    /\ shell_commands' = sh.cmds
    /\ HistoryBecomes(sh.hist)

(* The shell after a shell_execute(line) that came to r. *)
ExecApplied(r, line) ==
    /\ ShellBecomes(r.sh)
    /\ IF r.tail = NoTail
       THEN /\ UNCHANGED jobvars
            /\ last' = Step("shell_execute", Ret(r.ret), <<>>)
            /\ last_exit' = r.sh.last_exit
            /\ disp' = [op |-> "shell_execute", line |-> line,
                        calls |-> r.sh.calls,
                        hret |-> IF r.sh.calls = <<>> THEN NoRet
                                 ELSE r.sh.calls[1].ret]
       ELSE /\ IF r.tail[1] = "cmd_fg"
               THEN CmdFg(r.tail[2], "shell_execute")
               ELSE CmdBg(r.tail[2], "shell_execute")
            /\ last_exit' = IF pc' = "idle" THEN last'.ret[1]
                            ELSE r.sh.last_exit
            /\ disp' = [op |-> "shell_execute", line |-> line,
                        calls |-> r.sh.calls,
                        hret |-> IF pc' = "idle" THEN last'.ret ELSE NoRet]

(* shell_execute(line), up to its return or up to the suspension of its    *)
(* handler inside shell_fg / shell_bg.                                     *)
shell_execute(line) ==
    /\ pc = "idle"
    /\ executed < MaxExec
    /\ executed' = executed + 1
    /\ ExecApplied(ExecLine(ShellRec, line, 0), line)

(* The handler suspended inside shell_fg / shell_bg has returned to        *)
(* shell_execute, which stores the value it returned.                      *)
ExecResumed ==
    /\ last_exit' = IF pc' = "idle" /\ via = "shell_execute"
                    THEN last'.ret[1] ELSE last_exit
    /\ disp' = NoDisp
    /\ UNCHANGED <<running, interactive, cwd, shell_env, aliases, alias_count,
                   shell_commands, executed>>

(* A step that is none of shell_execute. *)
ExecIdle ==
    /\ disp' = NoDisp
    /\ UNCHANGED <<last_exit, running, interactive, cwd, shell_env, aliases,
                   alias_count, shell_commands, executed>>

ExecInit ==
    /\ last_exit = 0
    /\ running = TRUE
    /\ interactive = TRUE
    /\ cwd = <<"/">>
    /\ shell_env = [i \in EnvSlots |-> ZeroEnv]
    /\ aliases = [i \in AliasSlots |-> ZeroEnv]
    /\ alias_count = 0
    /\ shell_commands = shell_builtin_init
    /\ executed = 0
    /\ disp = NoDisp

(***************************************************************************)
(* The variables of a script context                                       *)
(***************************************************************************)
VarSlots == 0 .. (SCRIPT_MAX_VARS - 1)

VarTypes == {"VAR_TYPE_INT", "VAR_TYPE_STRING", "VAR_TYPE_FLOAT",
             "VAR_TYPE_ARRAY"}

(* A slot of vars[] after script_reset_context: the name and the value are *)
(* what the allocation left there, and are not read while the slot is not  *)
(* defined.                                                                *)
ZeroVar == [name |-> <<>>, type |-> "VAR_TYPE_UNDEFINED", value |-> <<>>,
            readonly |-> FALSE, defined |-> FALSE]

(* The slot find_var returns, NULL when it returns a null pointer. *)
find_var(ctx, name) ==
    LET Hit(i) == ctx.vars[i].defined /\ streq(ctx.vars[i].name, name)
    IN  FirstOf(VarSlots, Hit)

(* create_var: the context after the call and the slot returned. *)
create_var(ctx, name) ==
    LET i == find_var(ctx, name)
        Undefined(k) == ~ctx.vars[k].defined
        f == FirstOf(VarSlots, Undefined)
    IN  IF i # NULL THEN [ctx |-> ctx, var |-> i]
        ELSE IF f # NULL
        THEN [ctx |-> [ctx EXCEPT
                          !.vars[f] =
                              [@ EXCEPT !.defined = TRUE,
                                        !.name = strncpy(name, SCRIPT_VAR_NAME_LEN - 1),
                                        !.type = "VAR_TYPE_UNDEFINED",
                                        !.readonly = FALSE],
                          !.var_count = @ + 1],
              var |-> f]
        ELSE [ctx |-> ctx, var |-> NULL]

(* The value a variable of the type holds after the assignment of value:   *)
(* a string is copied into str_val, the others are stored as they are.     *)
StoredValue(type, value) ==
    IF type = "VAR_TYPE_STRING" THEN strncpy(value, SCRIPT_VAR_VAL_LEN - 1)
    ELSE value

(* script_set_var with a context, a name and a value that are not null:    *)
(* the context after the call and the value returned.                      *)
script_set_var(ctx, name, type, value) ==
    LET c == create_var(ctx, name)
    IN  IF c.var = NULL THEN [ctx |-> c.ctx, ret |-> SYSERR]
        ELSE IF c.ctx.vars[c.var].readonly THEN [ctx |-> c.ctx, ret |-> SYSERR]
        ELSE IF type \in VarTypes
        THEN [ctx |-> [c.ctx EXCEPT !.vars[c.var].type = type,
                                    !.vars[c.var].value = StoredValue(type, value)],
              ret |-> OK]
        ELSE [ctx |-> [c.ctx EXCEPT !.vars[c.var].type = type], ret |-> SYSERR]

(* No type: *type as a call leaves it that does not write it. *)
NoType == "(none)"

(* What script_get_var leaves in *type and *value, both not null, NoType   *)
(* and NoString where it writes nothing, and the value it returns.         *)
script_get_var(ctx, name) ==
    LET i == find_var(ctx, name)
    IN  IF i = NULL
        THEN [ret |-> SYSERR, type |-> NoType, value |-> NoString]
        ELSE IF ctx.vars[i].type \in VarTypes
        THEN [ret |-> OK, type |-> ctx.vars[i].type, value |-> ctx.vars[i].value]
        ELSE [ret |-> SYSERR, type |-> ctx.vars[i].type, value |-> NoString]

(* script_unset_var, were it to leave var_count as it is. *)
UnsetVarKeepsCount(ctx, name) ==
    LET i == find_var(ctx, name)
    IN  IF i = NULL THEN [ctx |-> ctx, ret |-> SYSERR]
        ELSE IF ctx.vars[i].readonly THEN [ctx |-> ctx, ret |-> SYSERR]
        ELSE [ctx |-> [ctx EXCEPT !.vars[i].defined = FALSE], ret |-> OK]

(* script_unset_var: the context after the call and the value returned. *)
script_unset_var(ctx, name) ==
    LET i == find_var(ctx, name)
    IN  IF i = NULL THEN [ctx |-> ctx, ret |-> SYSERR]
        ELSE IF ctx.vars[i].readonly THEN [ctx |-> ctx, ret |-> SYSERR]
        ELSE [ctx |-> [ctx EXCEPT !.vars[i].defined = FALSE,
                                  !.var_count = @ - 1],
              ret |-> OK]

script_var_exists(ctx, name) == find_var(ctx, name) # NULL

(* The script context, and with it the buffers of getmem. *)
Ctx == [vars |-> script_vars, var_count |-> var_count,
        funcs |-> script_funcs, func_count |-> func_count,
        labels |-> script_labels, label_count |-> label_count,
        line_num |-> line_num, running |-> script_running,
        exit_code |-> exit_code, loop_sp |-> loop_sp, call_sp |-> call_sp,
        call_stack |-> call_stack, loop_stack |-> loop_stack,
        fds |-> script_fds,
        heap |-> heap]

CtxBecomes(ctx) ==
    /\ script_vars' = ctx.vars
    /\ var_count' = ctx.var_count
    /\ script_funcs' = ctx.funcs
    /\ func_count' = ctx.func_count
    /\ script_labels' = ctx.labels
    /\ label_count' = ctx.label_count
    /\ line_num' = ctx.line_num
    /\ script_running' = ctx.running
    /\ exit_code' = ctx.exit_code
    /\ loop_sp' = ctx.loop_sp
    /\ call_sp' = ctx.call_sp
    /\ call_stack' = ctx.call_stack
    /\ loop_stack' = ctx.loop_stack
    /\ script_fds' = ctx.fds
    /\ heap' = ctx.heap

CtxIs(ctx) ==
    /\ script_vars = ctx.vars
    /\ var_count = ctx.var_count
    /\ script_funcs = ctx.funcs
    /\ func_count = ctx.func_count
    /\ script_labels = ctx.labels
    /\ label_count = ctx.label_count
    /\ line_num = ctx.line_num
    /\ script_running = ctx.running
    /\ exit_code = ctx.exit_code
    /\ loop_sp = ctx.loop_sp
    /\ call_sp = ctx.call_sp
    /\ call_stack = ctx.call_stack
    /\ loop_stack = ctx.loop_stack
    /\ script_fds = ctx.fds
    /\ heap = ctx.heap

(***************************************************************************)
(* The life of a script context                                            *)
(***************************************************************************)
FuncSlots == 0 .. (SCRIPT_MAX_FUNCS - 1)

LabelSlots == 0 .. (SCRIPT_MAX_LABELS - 1)

StackSlots == 0 .. (SCRIPT_MAX_STACK - 1)

(* The buffers getmem hands out for function bodies, each of them once. *)
BodyIds == 1 .. MaxBodies

(* The buffers before any call of getmem. *)
NoHeap == [b \in BodyIds |-> [text |-> <<>>, allocated |-> FALSE, frees |-> 0]]

(* freemem on each of the pointers, a pointer as often as it is there. *)
freemem(heap_, pointers) ==
    [b \in BodyIds |->
        [heap_[b] EXCEPT !.frees = @ + Cardinality({k \in DOMAIN pointers :
                                                       pointers[k] = b})]]

(* The memory of a context that getmem hands out for the first time: it    *)
(* is clear.                                                               *)
ClearContext ==
    [vars |-> [i \in VarSlots |-> ZeroVar], var_count |-> 0,
     funcs |-> [i \in FuncSlots |-> [name |-> <<>>, body |-> NULL,
                                     num_params |-> 0, defined |-> FALSE]],
     func_count |-> 0,
     labels |-> [i \in LabelSlots |-> [name |-> <<>>, line_num |-> 0,
                                       defined |-> FALSE]],
     label_count |-> 0,
     line_num |-> 0, running |-> FALSE, exit_code |-> 0,
     loop_sp |-> 0, call_sp |-> 0,
     call_stack |-> [i \in StackSlots |-> 0],
     loop_stack |-> [i \in StackSlots |-> 0],
     fds |-> [stdin_fd |-> 0, stdout_fd |-> 0, stderr_fd |-> 0],
     heap |-> NoHeap]

(* script_reset_context, were it to leave the labels as they are. *)
ResetKeepsLabels(ctx) ==
    [ctx EXCEPT
        !.vars = [i \in VarSlots |->
                     [ctx.vars[i] EXCEPT !.defined = FALSE,
                                         !.type = "VAR_TYPE_UNDEFINED",
                                         !.readonly = FALSE]],
        !.var_count = 0,
        !.heap = freemem(ctx.heap, [i \in FuncSlots |-> ctx.funcs[i].body]),
        !.funcs = [i \in FuncSlots |->
                      [ctx.funcs[i] EXCEPT !.defined = FALSE, !.body = NULL]],
        !.func_count = 0,
        !.line_num = 0, !.running = FALSE, !.exit_code = 0,
        !.loop_sp = 0, !.call_sp = 0,
        !.fds = [stdin_fd |-> 0, stdout_fd |-> 1, stderr_fd |-> 2]]

(* script_reset_context: it frees every body that is not null, whatever    *)
(* the slot's defined flag says, and leaves the names, the values and the  *)
(* stacks as they are.                                                     *)
script_reset_context(ctx) ==
    [ctx EXCEPT
        !.vars = [i \in VarSlots |->
                     [ctx.vars[i] EXCEPT !.defined = FALSE,
                                         !.type = "VAR_TYPE_UNDEFINED",
                                         !.readonly = FALSE]],
        !.var_count = 0,
        !.heap = freemem(ctx.heap, [i \in FuncSlots |-> ctx.funcs[i].body]),
        !.funcs = [i \in FuncSlots |->
                      [ctx.funcs[i] EXCEPT !.defined = FALSE, !.body = NULL]],
        !.func_count = 0,
        !.labels = [i \in LabelSlots |-> [ctx.labels[i] EXCEPT !.defined = FALSE]],
        !.label_count = 0,
        !.line_num = 0, !.running = FALSE, !.exit_code = 0,
        !.loop_sp = 0, !.call_sp = 0,
        !.fds = [stdin_fd |-> 0, stdout_fd |-> 1, stderr_fd |-> 2]]

(* script_create_context on the memory getmem returned: it resets what     *)
(* the memory holds, which nothing has written since getmem returned it.   *)
script_create_context(memory) == script_reset_context(memory)

(* script_destroy_context: the buffers after it.  It frees the bodies of   *)
(* the slots below func_count and then the context, whose memory keeps     *)
(* what it held.                                                           *)
script_destroy_context(ctx) ==
    freemem(ctx.heap, [i \in {k \in FuncSlots : k < ctx.func_count} |->
                          ctx.funcs[i].body])

(* The slot find_func returns, NULL when it returns a null pointer. *)
find_func(ctx, name) ==
    LET Hit(i) == ctx.funcs[i].defined /\ streq(ctx.funcs[i].name, name)
    IN  FirstOf(FuncSlots, Hit)

(* The buffers that getmem has not handed out. *)
FreshBodies(heap_) == {b \in BodyIds : ~heap_[b].allocated}

(* What getmem can return: a buffer it has not handed out, NULL when it    *)
(* finds no memory.                                                        *)
getmem(heap_) ==
    {NULL} \cup {b \in FreshBodies(heap_) : \A c \in FreshBodies(heap_) : b <= c}

(* script_define_func with a context, a name and a body that are not      *)
(* null, mem what its call of getmem returns: the context after the call   *)
(* and the value returned.                                                 *)
script_define_func(ctx, name, body, num_params, mem) ==
    LET i == find_func(ctx, name)
        Undefined(k) == ~ctx.funcs[k].defined
        f == FirstOf(FuncSlots, Undefined)
        func == IF i # NULL THEN i ELSE f
        found == IF ctx.funcs[i].body # NULL
                 THEN [ctx EXCEPT !.heap = freemem(@, <<ctx.funcs[i].body>>)]
                 ELSE ctx
        taken == [ctx EXCEPT
                     !.funcs[f].defined = TRUE,
                     !.funcs[f].name = strncpy(name, SCRIPT_VAR_NAME_LEN - 1),
                     !.func_count = @ + 1]
        c == IF i # NULL THEN found ELSE taken
    IN  IF func = NULL THEN [ctx |-> ctx, ret |-> SYSERR]
        ELSE IF mem = NULL
        THEN [ctx |-> [c EXCEPT !.funcs[func].body = NULL,
                                !.funcs[func].defined = FALSE],
              ret |-> SYSERR]
        ELSE [ctx |-> [c EXCEPT !.funcs[func].body = mem,
                                !.funcs[func].num_params = num_params,
                                !.heap[mem].text = body,
                                !.heap[mem].allocated = TRUE],
              ret |-> OK]

(***************************************************************************)
(* Evaluation and execution of script lines                                *)
(***************************************************************************)
(* The text p points to after the loop that skips ' ' and '\t'. *)
SkipBlanks(s) == SubSeq(s, SkipBlank(s, 1), Len(s))

(* strncmp(p, lit, strlen(lit)) == 0 *)
HasPrefix(s, lit) == Len(s) >= Len(lit) /\ SubSeq(s, 1, Len(lit)) = lit

(* The value of a digit of a number, 99 for a character that is none. *)
XDigitVal(c) ==
    IF isdigit(c) THEN DigitVal(c)
    ELSE CASE c \in {"a", "A"} -> 10 [] c \in {"b", "B"} -> 11
           [] c \in {"c", "C"} -> 12 [] c \in {"d", "D"} -> 13
           [] c \in {"e", "E"} -> 14 [] c \in {"f", "F"} -> 15
           [] OTHER -> 99

(* The ends of an int32_t. *)
MaxInt32 == 32767 * 65536 + 65535
MinInt32 == (0 - 32768) * 65536

(* `result * base + digit` in an int32_t, as two's complement arithmetic   *)
(* gives it: computed on the halves of 16 bits of result.                  *)
MulAdd32(result, base, digit) ==
    LET lo == (result % 65536) * base + digit
        hi == ((((result - (result % 65536)) \div 65536) % 65536) * base
               + (lo \div 65536)) % 65536
    IN  (IF hi >= 32768 THEN hi - 65536 ELSE hi) * 65536 + (lo % 65536)

(* `-result` in an int32_t, as two's complement arithmetic gives it. *)
Neg32(result) == IF result = MinInt32 THEN MinInt32 ELSE 0 - result

(* The digit loops of script_eval_int from position k on, where signed     *)
(* arithmetic wraps around.                                                *)
RECURSIVE EvalDigits(_, _, _, _)
EvalDigits(s, k, base, acc) ==
    IF k <= Len(s) /\ XDigitVal(s[k]) < base
    THEN EvalDigits(s, k + 1, base, MulAdd32(acc, base, XDigitVal(s[k])))
    ELSE acc

(* A step of the digit loops from position k on leaves the range of an     *)
(* int32_t: the behaviour of the signed arithmetic is undefined.           *)
RECURSIVE DigitsOverflow(_, _, _, _)
DigitsOverflow(s, k, base, acc) ==
    IF k <= Len(s) /\ XDigitVal(s[k]) < base
    THEN \/ acc > (MaxInt32 - XDigitVal(s[k])) \div base
         \/ DigitsOverflow(s, k + 1, base, acc * base + XDigitVal(s[k]))
    ELSE FALSE

(* script_eval_int where its behaviour is defined, and where signed        *)
(* arithmetic wraps around.  A variable that is no VAR_TYPE_INT gives 0.   *)
script_eval_int(ctx, expr) ==
    LET p == SkipBlanks(expr)
        negative == CharAt(p, 1) = "-"
        q == IF CharAt(p, 1) \in {"-", "+"} THEN Tail(p) ELSE p
        v == script_get_var(ctx, ScanName(q, 2, <<>>, FALSE).name)
        result ==
            IF CharAt(q, 1) = "$"
            THEN IF v.ret = OK /\ v.type = "VAR_TYPE_INT" THEN atoi(v.value)
                 ELSE 0
            ELSE IF CharAt(q, 1) = "0" /\ CharAt(q, 2) \in {"x", "X"}
            THEN EvalDigits(q, 3, 16, 0)
            ELSE IF CharAt(q, 1) = "0" /\ XDigitVal(CharAt(q, 2)) < 8
            THEN EvalDigits(q, 2, 8, 0)
            ELSE EvalDigits(q, 1, 10, 0)
    IN  IF negative THEN Neg32(result) ELSE result

(* The bytes script_get_var writes to *value for the variable in slot i:   *)
(* an int32_t, a double, the string with its NUL, or a pointer, of 4 or 8  *)
(* bytes as the build has them.                                            *)
ValueBytes(ctx, i) ==
    CASE ctx.vars[i].type = "VAR_TYPE_INT" -> {4}
      [] ctx.vars[i].type = "VAR_TYPE_FLOAT" -> {8}
      [] ctx.vars[i].type = "VAR_TYPE_STRING" -> {Len(ctx.vars[i].value) + 1}
      [] ctx.vars[i].type = "VAR_TYPE_ARRAY" -> {4, 8}
      [] OTHER -> {0}

(* The bytes script_eval_int has script_get_var write to its int32_t       *)
(* result.                                                                 *)
EvalWrites(ctx, expr) ==
    LET p == SkipBlanks(expr)
        q == IF CharAt(p, 1) \in {"-", "+"} THEN Tail(p) ELSE p
        i == find_var(ctx, ScanName(q, 2, <<>>, FALSE).name)
    IN  IF CharAt(q, 1) = "$" /\ i # NULL THEN ValueBytes(ctx, i) ELSE {0}

(* The digit loops of script_eval_int leave the range of an int32_t. *)
EvalOverflows(expr) ==
    LET p == SkipBlanks(expr)
        q == IF CharAt(p, 1) \in {"-", "+"} THEN Tail(p) ELSE p
    IN  IF CharAt(q, 1) = "$" THEN FALSE
        ELSE IF CharAt(q, 1) = "0" /\ CharAt(q, 2) \in {"x", "X"}
        THEN DigitsOverflow(q, 3, 16, 0)
        ELSE IF CharAt(q, 1) = "0" /\ XDigitVal(CharAt(q, 2)) < 8
        THEN DigitsOverflow(q, 2, 8, 0)
        ELSE DigitsOverflow(q, 1, 10, 0)

(* What a call of script_eval_int can do: the value it returns (0 where    *)
(* it does not return), the bytes written to result and whether the call   *)
(* ends the program.  A write past                                         *)
(* the 4 bytes of result runs over the frame of the function: the call     *)
(* returns 0, returns another number or ends the program.  A digit loop    *)
(* that leaves the range of an int32_t wraps around, or ends the program   *)
(* where the build traps the overflow.                                     *)
EvalOutcomes(ctx, expr) ==
    {o \in [ret : {script_eval_int(ctx, expr), 1},
            written : EvalWrites(ctx, expr), ended : BOOLEAN] :
        /\ o.ended => o.written > 4 \/ EvalOverflows(expr)
        /\ o.ended => o.ret = 0
        /\ ~o.ended /\ o.ret # script_eval_int(ctx, expr) => o.written > 4}

(* The slot find_label returns, NULL when it returns a null pointer. *)
find_label(ctx, name) ==
    LET Hit(i) == ctx.labels[i].defined /\ streq(ctx.labels[i].name, name)
    IN  FirstOf(LabelSlots, Hit)

(* create_label: the context after the call and the value returned. *)
create_label(ctx, name, line_num_) ==
    LET i == find_label(ctx, name)
        Undefined(k) == ~ctx.labels[k].defined
        f == FirstOf(LabelSlots, Undefined)
    IN  IF i # NULL
        THEN [ctx |-> [ctx EXCEPT !.labels[i].line_num = line_num_], ret |-> OK]
        ELSE IF f # NULL
        THEN [ctx |-> [ctx EXCEPT
                          !.labels[f] =
                              [defined |-> TRUE,
                               name |-> strncpy(name, SCRIPT_VAR_NAME_LEN - 1),
                               line_num |-> line_num_],
                          !.label_count = @ + 1],
              ret |-> OK]
        ELSE [ctx |-> ctx, ret |-> SYSERR]

(* script_goto_label, were it to return OK for a label it does not find. *)
GotoUnknownLabelOk(ctx, label) ==
    LET lbl == find_label(ctx, label)
    IN  IF lbl = NULL THEN [ctx |-> ctx, ret |-> OK]
        ELSE [ctx |-> [ctx EXCEPT !.line_num = ctx.labels[lbl].line_num],
              ret |-> OK]

script_goto_label(ctx, label) ==
    LET lbl == find_label(ctx, label)
    IN  IF lbl = NULL THEN [ctx |-> ctx, ret |-> SYSERR]
        ELSE [ctx |-> [ctx EXCEPT !.line_num = ctx.labels[lbl].line_num],
              ret |-> OK]

(* script_break, were it to succeed outside a loop and do nothing. *)
BreakOutsideLoopOk(ctx) == [ctx |-> ctx, ret |-> OK]

script_break(ctx) ==
    IF ctx.loop_sp = 0 THEN [ctx |-> ctx, ret |-> SYSERR]
    ELSE [ctx |-> [ctx EXCEPT !.line_num = ctx.loop_stack[ctx.loop_sp - 1]],
          ret |-> OK]

script_continue(ctx) ==
    IF ctx.loop_sp = 0 THEN [ctx |-> ctx, ret |-> SYSERR]
    ELSE [ctx |-> [ctx EXCEPT !.line_num = ctx.loop_stack[ctx.loop_sp - 1] - 1],
          ret |-> OK]

(* script_return, were it to leave ctx->running as it is. *)
ReturnKeepsRunning(ctx, value) ==
    [ctx |-> [ctx EXCEPT !.exit_code = value], ret |-> OK]

script_return(ctx, value) ==
    [ctx |-> [ctx EXCEPT !.exit_code = value, !.running = FALSE], ret |-> OK]

(* The length of s[1 .. n] without the blanks at its end. *)
TrimmedLen(s, n) ==
    LET ends == {k \in 1 .. n : ~isblank(s[k])}
    IN  IF ends = {} THEN 0 ELSE CHOOSE k \in ends : \A j \in ends : j <= k

(* What a line does: the context after it, the value execute_line returns  *)
(* and the branch of execute_line that was taken.                          *)
Did(ctx, ret, stmt) == [ctx |-> ctx, ret |-> ret, stmt |-> stmt]

(* The control flow keywords of execute_line on the text at p, and the     *)
(* evaluation of anything else.                                            *)
ExecuteKeyword(ctx, p) ==
    IF HasPrefix(p, <<"i", "f", " ">>) THEN Did(ctx, OK, "if")
    ELSE IF HasPrefix(p, <<"w", "h", "i", "l", "e", " ">>) THEN Did(ctx, OK, "while")
    ELSE IF HasPrefix(p, <<"f", "o", "r", " ">>) THEN Did(ctx, OK, "for")
    ELSE IF streq(p, <<"b", "r", "e", "a", "k">>)
    THEN Did(script_break(ctx).ctx, script_break(ctx).ret, "break")
    ELSE IF streq(p, <<"c", "o", "n", "t", "i", "n", "u", "e">>)
    THEN Did(script_continue(ctx).ctx, script_continue(ctx).ret, "continue")
    ELSE IF HasPrefix(p, <<"r", "e", "t", "u", "r", "n">>)
    THEN LET e == SkipBlanks(SubSeq(p, 7, Len(p)))
             val == IF e # <<>> THEN script_eval_int(ctx, e) ELSE 0
         IN  Did(script_return(ctx, val).ctx, script_return(ctx, val).ret, "return")
    ELSE IF HasPrefix(p, <<"g", "o", "t", "o", " ">>)
    THEN LET l == SkipBlanks(SubSeq(p, 6, Len(p)))
         IN  Did(script_goto_label(ctx, l).ctx, script_goto_label(ctx, l).ret, "goto")
    ELSE Did(ctx, OK, "expression")

(* The assignment of execute_line on the text at p, and what follows it. *)
ExecuteAssignment(ctx, p) ==
    LET equals == StrChr(p, "=", 1)
        len == TrimmedLen(p, equals - 1)
        var_name == SubSeq(p, 1, len)
        e == SkipBlanks(SubSeq(p, equals + 1, Len(p)))
    IN  IF /\ equals > 1
           /\ p[equals - 1] \notin {"!", "<", ">"}
           /\ len < SCRIPT_VAR_NAME_LEN
        THEN IF isdigit(CharAt(e, 1)) \/ CharAt(e, 1) \in {"-", "+"}
             THEN Did(script_set_var(ctx, var_name, "VAR_TYPE_INT",
                                     itoa(script_eval_int(ctx, e))).ctx,
                      OK, "assignment")
             ELSE Did(script_set_var(ctx, var_name, "VAR_TYPE_STRING", e).ctx,
                      OK, "assignment")
        ELSE ExecuteKeyword(ctx, p)

(* execute_line: a variable of VAR_TYPE_INT holds the decimal text of its  *)
(* number.                                                                 *)
execute_line(ctx, line) ==
    LET p == SkipBlanks(line)
        colon == StrChr(p, ":", 1)
        len == colon - 1
        labelled ==
            IF colon > 1 /\ len < SCRIPT_VAR_NAME_LEN
            THEN create_label(ctx, SubSeq(p, 1, len), ctx.line_num).ctx
            ELSE ctx
        rest == SkipBlanks(SubSeq(p, colon + 1, Len(p)))
    IN  IF p = <<>> \/ p[1] = "#" THEN Did(ctx, OK, "empty")
        ELSE IF colon > 1
        THEN IF rest = <<>> THEN Did(labelled, OK, "label")
             ELSE ExecuteAssignment(labelled, rest)
        ELSE ExecuteAssignment(ctx, p)

(* The tokens strtok_r(.., "\n", ..) returns for the script from position  *)
(* p on: the lines that are not empty, each with its position among the    *)
(* lines of the script, which the source does not keep.                    *)
RECURSIVE Lines(_, _, _)
Lines(script, p, at) ==
    LET IsNewline(k) == script[k] = "\n"
        q == NextPos(script, p, IsNewline)
    IN  IF p > Len(script) THEN <<>>
        ELSE IF q = p THEN Lines(script, p + 1, at + 1)
        ELSE <<[text |-> SubSeq(script, p, q - 1), at |-> at]>>
                 \o Lines(script, q + 1, at + 1)

(* The loop of script_execute on the lines left, with the lines executed   *)
(* so far: for each its text, its position in the script, ctx->line_num    *)
(* when it was executed, the value execute_line returned, the branch it    *)
(* took, the labels and the variables before it, the labels and the        *)
(* variables after it and whether it left the context as it was.           *)
RECURSIVE RunLines(_, _, _)

(* The loop after execute_line, were a goto that succeeds to skip the line  *)
(* after it.                                                               *)
RanLineGotoSkips(c, r, line, rest, executed_) ==
    LET e == Append(executed_,
                    [text |-> line.text, at |-> line.at,
                     line_num |-> c.line_num, ret |-> r.ret,
                     stmt |-> r.stmt,
                     labels |-> c.labels, vars |-> c.vars,
                     after |-> r.ctx.labels, set |-> r.ctx.vars,
                     unchanged |-> r.ctx = c])
    IN  IF r.ret # OK THEN [ctx |-> r.ctx, executed |-> e]
        ELSE IF r.stmt = "goto" /\ rest # <<>>
        THEN RunLines(r.ctx, Tail(rest), e)
        ELSE RunLines(r.ctx, rest, e)

(* The loop after execute_line returned r for the line executed in c. *)
RanLine(c, r, line, rest, executed_) ==
    LET e == Append(executed_,
                    [text |-> line.text, at |-> line.at,
                     line_num |-> c.line_num, ret |-> r.ret,
                     stmt |-> r.stmt,
                     labels |-> c.labels, vars |-> c.vars,
                     after |-> r.ctx.labels, set |-> r.ctx.vars,
                     unchanged |-> r.ctx = c])
    IN  IF r.ret # OK THEN [ctx |-> r.ctx, executed |-> e]
        ELSE RunLines(r.ctx, rest, e)

(* One turn of the loop: execute_line in c, the context with the line      *)
(* counted.                                                                *)
RunLine(c, line, rest, executed_) ==
    RanLine(c, execute_line(c, line.text), line, rest, executed_)

RunLines(ctx, lines, executed_) ==
    IF lines = <<>> \/ ~ctx.running THEN [ctx |-> ctx, executed |-> executed_]
    ELSE RunLine([ctx EXCEPT !.line_num = @ + 1], Head(lines), Tail(lines),
                 executed_)

(* The end of script_execute, r being what the loop left. *)
ScriptExecuted(r) ==
    [ctx |-> [r.ctx EXCEPT !.running = FALSE],
     ret |-> r.ctx.exit_code,
     executed |-> r.executed]

(* script_execute with a context and a script that are not null, when      *)
(* getmem has memory for the copy of the script: the context after the     *)
(* call, the value returned and the lines executed.                        *)
script_execute(ctx, script) ==
    ScriptExecuted(RunLines([ctx EXCEPT !.running = TRUE, !.line_num = 0],
                            Lines(script, 1, 1), <<>>))

(* The loop of script_call_func that sets the parameters i .. k - 1. *)
RECURSIVE SetParams(_, _, _, _)
SetParams(ctx, argv, i, k) ==
    IF i >= k THEN ctx
    ELSE SetParams(script_set_var(ctx, <<"a", "r", "g">> \o itoa(i),
                                  "VAR_TYPE_STRING", argv[i + 1]).ctx,
                   argv, i + 1, k)

(* The frame of script_call_func popped after the body ran in bound and    *)
(* script_execute returned r.                                              *)
CallReturned(bound, r) ==
    [ctx |-> IF r.ctx.call_sp > 0
             THEN [r.ctx EXCEPT
                      !.call_sp = @ - 1,
                      !.line_num = r.ctx.call_stack[r.ctx.call_sp - 1]]
             ELSE r.ctx,
     ret |-> r.ret, bound |-> bound, executed |-> r.executed]

(* The body run in bound, the context with the frame pushed and the        *)
(* parameters set.                                                         *)
CallBody(bound, body) == CallReturned(bound, script_execute(bound, body))

(* script_call_func once the function is found and the stack has room. *)
CallFunc(ctx, func, argc, argv) ==
    CallBody(SetParams([ctx EXCEPT !.call_stack[ctx.call_sp] = ctx.line_num,
                                   !.call_sp = @ + 1],
                       argv, 0, Min(func.num_params, argc)),
             ctx.heap[func.body].text)

(* script_call_func with a context and a name that are not null and an     *)
(* argv of argc strings: the context after the call, the value returned,   *)
(* the context the body was executed in and the lines executed.            *)
script_call_func(ctx, name, argc, argv) ==
    IF find_func(ctx, name) = NULL \/ ctx.call_sp >= SCRIPT_MAX_STACK
    THEN [ctx |-> ctx, ret |-> SYSERR, bound |-> ctx, executed |-> <<>>]
    ELSE CallFunc(ctx, ctx.funcs[find_func(ctx, name)], argc, argv)

(* The pattern without the stars it starts with: the loop after the main   *)
(* loop of expr_match_glob.                                                *)
SkipStars(pattern) ==
    LET NotStar(k) == pattern[k] # "*"
    IN  SubSeq(pattern, NextPos(pattern, 1, NotStar), Len(pattern))

(* The match of one character, were `?` a character like any other. *)
GlobOneLiteral(p, s) == p = s

(* The character of the pattern is `?` or the character of the string. *)
GlobOne(p, s) == p = "?" \/ p = s

(* expr_match_glob *)
RECURSIVE expr_match_glob(_, _)
expr_match_glob(pattern, string) ==
    IF pattern # <<>> /\ string # <<>>
    THEN IF pattern[1] = "*"
         THEN IF Tail(pattern) = <<>> THEN TRUE
              ELSE \E k \in 1 .. Len(string) :
                      expr_match_glob(Tail(pattern), SubSeq(string, k, Len(string)))
         ELSE IF GlobOne(pattern[1], string[1])
         THEN expr_match_glob(Tail(pattern), Tail(string))
         ELSE FALSE
    ELSE SkipStars(pattern) = <<>> /\ string = <<>>

(* The context after the first script_create_context. *)
ScriptInit ==
    /\ CtxIs(script_create_context(ClearContext))
    /\ script_ops = 0
    /\ ctx_live = TRUE

(***************************************************************************)
(* The job table under the shell's calls and the process layer's           *)
(* notifications                                                           *)
(***************************************************************************)
DigitStr(n) == <<CHOOSE c \in {"0", "1", "2", "3", "4", "5", "6", "7", "8", "9"} :
                     DigitVal(c) = n>>

(* The argument vectors of `fg`, `fg N`, `bg`, `bg N`. *)
JobArgs == {<<>>} \cup {<<DigitStr(n)>> : n \in 0 .. MaxJobs}

Notified == {"JOB_STOPPED", "JOB_DONE", "JOB_KILLED"}

JobInit ==
    /\ shell_jobs = [i \in JobSlots |-> ZeroJob]
    /\ shell_job_count = 0
    /\ pc = "idle"
    /\ cur = NULL
    /\ via = "api"
    /\ last = Step("shell_init", NoRet, <<>>)

(* The state after shell_init. *)
(* No function is studied by itself. *)
NoArg == [op |-> "none"]

Init == JobInit /\ HistInit /\ ExecInit /\ ScriptInit /\ arg = NoArg

Create == \E pid \in JobPids, fg \in BOOLEAN : shell_job_create(pid, fg)

Notify == \E id \in 1 .. MaxJobs, st \in Notified : shell_job_update(id, st)

Bg == \E pid \in Pids : shell_bg(pid)

Fg == \E pid \in Pids : shell_fg(pid)

BuiltinFg == \E a \in JobArgs : pc = "idle" /\ cmd_fg(<<<<"f", "g">>>> \o a)

BuiltinBg == \E a \in JobArgs : pc = "idle" /\ cmd_bg(<<<<"b", "g">>>> \o a)

JobNext ==
    \/ Create /\ UNCHANGED <<histvars, execvars, argvars, scriptvars>>
    \/ Notify /\ UNCHANGED <<histvars, execvars, argvars, scriptvars>>
    \/ Bg /\ UNCHANGED <<histvars, execvars, argvars, scriptvars>>
    \/ Fg /\ UNCHANGED <<histvars, execvars, argvars, scriptvars>>
    \/ BuiltinBg /\ UNCHANGED <<histvars, execvars, argvars, scriptvars>>
    \/ BuiltinFg /\ UNCHANGED <<histvars, execvars, argvars, scriptvars>>
    \/ bg_resumed /\ UNCHANGED <<histvars, execvars, argvars, scriptvars>>
    \/ fg_resumed /\ UNCHANGED <<histvars, execvars, argvars, scriptvars>>
    \/ shell_wait_job /\ UNCHANGED <<histvars, execvars, argvars, scriptvars>>

JobSpec == Init /\ [][JobNext]_vars

(***************************************************************************)
(* Properties of the job table                                             *)
(***************************************************************************)
IsTerminal(state) == state \in {"JOB_DONE", "JOB_KILLED"}

(* A step that enters shell_fg(pid) / shell_bg(pid), called directly or by *)
(* the builtin.                                                            *)
FgEntered(pid) ==
    shell_fg(pid) \/ (pc = "idle" /\ FgCall("cmd_fg", pid, "builtin"))

BgEntered(pid) ==
    shell_bg(pid) \/ (pc = "idle" /\ BgCall("cmd_bg", pid, "builtin"))

(* The steps the shell takes inside shell_fg and shell_bg, called directly *)
(* or through the builtins.                                                *)
FgBgOps == {"shell_fg", "shell_bg", "cmd_fg", "cmd_bg", "fg_resumed",
            "bg_resumed", "shell_wait_job"}

(* C1: Done and Killed are terminal: no step of shell_fg or shell_bg,      *)
(* called directly or through the fg/bg builtins, changes the state of a   *)
(* job that is Done or Killed.                                             *)
C1_TerminalStatesAreFinal ==
    [][last'.op \in FgBgOps =>
          \A i \in JobSlots :
              IsTerminal(shell_jobs[i].state) =>
                  shell_jobs'[i].state = shell_jobs[i].state]_vars

(* C2: a completion notification (Done or Killed) delivered while shell_fg *)
(* is suspended, inside resume() or inside a yield(), is not overwritten:  *)
(* the next step of shell_fg leaves the job in a terminal state and        *)
(* shell_fg returns.                                                       *)
C2_NotificationNotOverwritten ==
    [][(/\ pc \in {"fg_resume", "fg_yield"}
        /\ last'.op \in {"fg_resumed", "shell_wait_job"}
        /\ IsTerminal(shell_jobs[cur].state))
       => (IsTerminal(shell_jobs'[cur].state) /\ pc' = "idle")]_vars

(* C3: shell_fg(pid) on a Stopped job calls resume(pid), then sets the     *)
(* job's state to Running and its foreground flag, then stays blocked in   *)
(* shell_wait_job for as long as the state is Running; when it returns,    *)
(* the job's state is not Running and the result is OK.                    *)
C3_FgStoppedJob ==
    [][/\ \A pid \in Pids :
            LET i == shell_job_find_by_pid(shell_jobs, pid)
            IN  (/\ last'.op \in {"shell_fg", "cmd_fg"}
                 /\ i # NULL
                 /\ shell_jobs[i].state = "JOB_STOPPED"
                 /\ FgEntered(pid))
                => (/\ last'.resumes = <<pid>>
                    /\ last'.ret = NoRet
                    /\ pc' = "fg_resume"
                    /\ cur' = i
                    /\ shell_jobs' = shell_jobs)
       /\ (pc = "fg_resume" /\ last'.op = "fg_resumed")
            => (/\ shell_jobs'[cur].state = "JOB_RUNNING"
                /\ shell_jobs'[cur].foreground
                /\ last'.ret = NoRet
                /\ pc' = "fg_yield"
                /\ cur' = cur)
       /\ (/\ pc = "fg_yield"
           /\ last'.op = "shell_wait_job"
           /\ shell_jobs[cur].state = "JOB_RUNNING")
            => (pc' = "fg_yield" /\ cur' = cur /\ last'.ret = NoRet)
       /\ (pc = "fg_yield" /\ pc' = "idle")
            => (/\ shell_jobs[cur].state # "JOB_RUNNING"
                /\ shell_jobs' = shell_jobs
                /\ (via = "api" => last'.ret = Ret(OK)))]_vars

(* A Stopped job has been resumed by shell_fg, which is now blocked on it. *)
C3_Witness ==
    /\ last.op = "fg_resumed"
    /\ pc = "fg_yield"
    /\ via = "api"
    /\ shell_jobs[cur].state = "JOB_RUNNING"
    /\ shell_jobs[cur].foreground

(* C4: shell_bg(pid) on a job that is not Stopped changes no slot, calls   *)
(* resume() not at all and returns OK, the result of a performed           *)
(* transition too.                                                         *)
C4_BgNotStoppedIsNoOp ==
    [][/\ \A pid \in Pids :
            LET i == shell_job_find_by_pid(shell_jobs, pid)
            IN  (/\ last'.op \in {"shell_bg", "cmd_bg"}
                 /\ i # NULL
                 /\ shell_jobs[i].state # "JOB_STOPPED"
                 /\ BgEntered(pid))
                => (/\ shell_jobs' = shell_jobs
                    /\ last'.resumes = <<>>
                    /\ (last'.op = "shell_bg" => last'.ret = Ret(OK))
                    /\ pc' = "idle")
       /\ (pc = "bg_resume" /\ via = "api" /\ last'.op = "bg_resumed")
            => last'.ret = Ret(OK)]_vars

(* shell_bg has returned OK without a resume() while every slot holds a    *)
(* created job in a terminal state.                                        *)
C4_Witness ==
    /\ last.op = "shell_bg"
    /\ last.ret = Ret(OK)
    /\ last.resumes = <<>>
    /\ \A i \in JobSlots :
           shell_jobs[i].id # 0 /\ IsTerminal(shell_jobs[i].state)

(* C5: shell_bg(pid) on a Stopped job calls resume(pid) exactly once, sets *)
(* the job's state to Running and clears its foreground flag; no other     *)
(* slot and no other field of the job is modified.                         *)
C5_BgStoppedJob ==
    [][/\ \A pid \in Pids :
            LET i == shell_job_find_by_pid(shell_jobs, pid)
            IN  (/\ last'.op \in {"shell_bg", "cmd_bg"}
                 /\ i # NULL
                 /\ shell_jobs[i].state = "JOB_STOPPED"
                 /\ BgEntered(pid))
                => (/\ last'.resumes = <<pid>>
                    /\ pc' = "bg_resume"
                    /\ cur' = i
                    /\ shell_jobs' = shell_jobs)
       /\ (pc = "bg_resume" /\ last'.op = "bg_resumed")
            => (/\ shell_jobs' =
                       [shell_jobs EXCEPT ![cur].state = "JOB_RUNNING",
                                          ![cur].foreground = FALSE]
                /\ last'.resumes = <<>>
                /\ pc' = "idle")]_vars

(* shell_bg has completed the transition of a job that was in the          *)
(* foreground, next to another created job.                                *)
C5_Witness ==
    /\ last.op = "bg_resumed"
    /\ last.ret = Ret(OK)
    /\ \E i, j \in JobSlots :
           /\ i # j
           /\ shell_jobs[i].id # 0
           /\ shell_jobs[j].id # 0
           /\ shell_jobs[i].state = "JOB_RUNNING"
           /\ ~shell_jobs[i].foreground
           /\ shell_jobs[j].foreground

(* C6: shell_job_create succeeds whenever a slot is unused or holds a job  *)
(* in a terminal state (Done or Killed) and fails only when every slot     *)
(* holds a Running or Stopped job; on success the chosen slot is Running   *)
(* and the returned id is its index + 1.                                   *)
C6_CreateUsesFreeOrTerminalSlot ==
    [][last'.op = "shell_job_create" =>
          IF \E i \in JobSlots :
                 shell_jobs[i].id = 0 \/ IsTerminal(shell_jobs[i].state)
          THEN \E i \in JobSlots :
                   /\ last'.ret = Ret(i + 1)
                   /\ shell_jobs'[i].id = i + 1
                   /\ shell_jobs'[i].state = "JOB_RUNNING"
          ELSE last'.ret = Ret(SYSERR)]_vars

(***************************************************************************)
(* The history under shell_history_add and shell_history_clear             *)
(***************************************************************************)
Line(n, c) == [i \in 1 .. n |-> c]

(* The lines added: the empty line, short lines, a line that fills a       *)
(* history slot and lines one character longer than a slot holds.          *)
HistCmds == {<<>>, <<"a">>, <<"b">>,
             Line(SHELL_MAX_LINE - 1, "a"),
             Line(SHELL_MAX_LINE, "a"),
             Line(SHELL_MAX_LINE - 1, "a") \o <<"b">>}

HistoryAdd == \E cmd \in HistCmds : shell_history_add(cmd)

HistoryClear == shell_history_clear

HistNext ==
    \/ HistoryAdd /\ UNCHANGED <<jobvars, execvars, argvars, scriptvars>>
    \/ HistoryClear /\ UNCHANGED <<jobvars, execvars, argvars, scriptvars>>

HistSpec == Init /\ [][HistNext]_vars

(***************************************************************************)
(* Properties of the history                                               *)
(***************************************************************************)
(* The first n characters of a line, the whole line when it is shorter. *)
Prefix(line, n) == IF Len(line) <= n THEN line ELSE SubSeq(line, 1, n)

(* C7, as claimed: the history holds the latest min(n, capacity) stored    *)
(* commands, and shell_history_get(i) returns them, oldest first, each as  *)
(* it was passed to shell_history_add.                                     *)
C7_GetReturnsCommands ==
    /\ history_count = Len(accepted)
    /\ \A i \in 0 .. (history_count - 1) :
           shell_history_get(i) = accepted[i + 1]

(* C7, amended: shell_history_get(i) returns, oldest first, the first      *)
(* SHELL_MAX_LINE - 1 characters of each of the latest min(n, capacity)    *)
(* stored commands.                                                        *)
C7_GetReturnsStoredPrefixes ==
    /\ history_count = Len(accepted)
    /\ history_count <= SHELL_HISTORY_SIZE
    /\ \A i \in 0 .. (history_count - 1) :
           shell_history_get(i) = Prefix(accepted[i + 1], SHELL_MAX_LINE - 1)

(* The ring is full and has wrapped, and an over-long line is among the    *)
(* surviving commands.                                                     *)
C7_Witness ==
    /\ history_count = SHELL_HISTORY_SIZE
    /\ history_index = 1
    /\ last.op = "shell_history_add"
    /\ \E i \in 1 .. Len(accepted) : Len(accepted[i]) > SHELL_MAX_LINE - 1
    /\ \E i \in 1 .. Len(accepted) : Len(accepted[i]) = 1

(* C8: after every shell_history_add and shell_history_clear no two        *)
(* logically adjacent entries are equal; and adding an empty line, or a    *)
(* line equal to the most recent entry, changes neither the count nor the  *)
(* write index nor any stored entry.                                       *)
C8_NoAdjacentDuplicates ==
    [][/\ \A i \in 0 .. (history_count' - 2) :
              HistoryGet(history', history_index', history_count', i)
                  # HistoryGet(history', history_index', history_count', i + 1)
       /\ (/\ last'.op = "shell_history_add"
           /\ \/ last'.cmd = <<>>
              \/ /\ history_count > 0
                 /\ last'.cmd = shell_history_get(history_count - 1))
          => UNCHANGED <<history, history_count, history_index>>]_vars

(* C9: shell_history_get fails for every index below 0 and from count on   *)
(* and returns an entry for every index in [0, count);                     *)
(* shell_history_clear sets count and write cursor to 0 and keeps the      *)
(* storage, after it every get fails, and the next non-empty add is        *)
(* stored whatever the history held before the clear.                      *)
C9_GetRangeAndClear ==
    [][/\ \A i \in (0 - 1) .. (SHELL_HISTORY_SIZE + 1) :
              LET got == HistoryGet(history', history_index', history_count', i)
              IN  IF 0 <= i /\ i < history_count'
                  THEN got # NoString /\ \E k \in HistSlots : got = history'[k].command
                  ELSE got = NoString
       /\ last'.op = "shell_history_clear"
          => (/\ history_count' = 0
              /\ history_index' = 0
              /\ history' = history)
       /\ (/\ last.op = "shell_history_clear"
           /\ last'.op = "shell_history_add"
           /\ last'.cmd # <<>>)
          => (/\ history_count' = 1
              /\ HistoryGet(history', history_index', history_count', 0)
                     = Prefix(last'.cmd, SHELL_MAX_LINE - 1))]_vars

(* The command that was the most recent entry before a clear has been      *)
(* added right after the clear, and it is the one entry of the history.    *)
C9_Witness ==
    /\ last.op = "shell_history_add"
    /\ last.dropped # NoString
    /\ last.dropped = last.cmd
    /\ history_count = 1
    /\ shell_history_get(0) = last.cmd
    /\ shell_history_get(1) = NoString

(***************************************************************************)
(* Command lines under shell_execute, with a job of the process layer and  *)
(* commands registered after shell_init                                    *)
(***************************************************************************)
Blanks(n) == [i \in 1 .. n |-> " "]

(* The command lines executed: builtins that succeed and fail, an unknown  *)
(* command, the builtins that define and remove a variable and an alias,   *)
(* a line that is a variable, nested commands, a quoted command, a         *)
(* comment, the job-control builtins, and the command `true` behind so     *)
(* many blanks that it ends on the last character the shell reads, and one *)
(* blank further.                                                          *)
ExecLines ==
    {<<"t", "r", "u", "e">>,
     <<"f", "a", "l", "s", "e">>,
     <<"x">>,
     <<"e", "x", "i", "t", " ", "3">>,
     <<"s", "e", "t", " ", "X", " ", "t", "r", "u", "e">>,
     <<"u", "n", "s", "e", "t", " ", "X">>,
     <<"a", "l", "i", "a", "s", " ", "x", " ", "t", "r", "u", "e">>,
     <<"u", "n", "a", "l", "i", "a", "s", " ", "x">>,
     <<"$", "X">>,
     <<"t", "i", "m", "e", " ", "f", "a", "l", "s", "e">>,
     <<"t", "i", "m", "e", " ", "t", "i", "m", "e", " ", "x">>,
     <<"\"", "t", "r", "u", "e", "\"">>,
     <<"f", "g">>,
     <<"b", "g", " ", "1">>,
     <<"#", " ", "c">>,
     Blanks(SHELL_MAX_LINE - 5) \o <<"t", "r", "u", "e">>,
     Blanks(SHELL_MAX_LINE - 4) \o <<"t", "r", "u", "e">>}

(* The pid of the one job of this specification. *)
ExecPids == {1}

(* The command registered after shell_init: a second handler for a name   *)
(* that is registered already.                                             *)
ExecRegistered == {Command(<<"t", "r", "u", "e">>, "cmd_false")}

Execute == \E line \in ExecLines : shell_execute(line)

ExecRegister ==
    \E c \in ExecRegistered :
        /\ pc = "idle"
        /\ c \notin {shell_commands[k] : k \in 1 .. Len(shell_commands)}
        /\ LET r == shell_register_command(shell_commands, c.name, c.func)
           IN  /\ shell_commands' = r.cmds
               /\ last' = Step("shell_register_command", Ret(r.ret), <<>>)
        /\ disp' = NoDisp
        /\ UNCHANGED <<last_exit, running, interactive, cwd, shell_env,
                       aliases, alias_count, executed>>

ExecCreate ==
    \E pid \in ExecPids :
        /\ shell_job_count < Cardinality(ExecPids)
        /\ shell_job_create(pid, FALSE)

ExecNext ==
    \/ Execute /\ UNCHANGED <<argvars, scriptvars>>
    \/ ExecRegister /\ UNCHANGED <<jobvars, histvars, argvars, scriptvars>>
    \/ ExecCreate /\ ExecIdle /\ UNCHANGED <<histvars, argvars, scriptvars>>
    \/ Notify /\ ExecIdle /\ UNCHANGED <<histvars, argvars, scriptvars>>
    \/ bg_resumed /\ ExecResumed /\ UNCHANGED <<histvars, argvars, scriptvars>>
    \/ fg_resumed /\ ExecResumed /\ UNCHANGED <<histvars, argvars, scriptvars>>
    \/ shell_wait_job /\ ExecResumed /\ UNCHANGED <<histvars, argvars, scriptvars>>

ExecSpec == Init /\ [][ExecNext]_vars

(***************************************************************************)
(* Properties of shell_execute                                             *)
(***************************************************************************)
(* A buffer that holds every expansion of the line. *)
Roomy(line) == SHELL_MAX_LINE * (Len(line) + 2)

(* The words of the whole line: its expansion, cut nowhere, split into as  *)
(* many words as it has.                                                   *)
LineWords(line) ==
    shell_parse_line(shell_expand(line, Roomy(line), shell_env, last_exit,
                                  currpid),
                     Len(line) + 2)

Registered(name) ==
    \E k \in 1 .. Len(shell_commands) : shell_commands[k].name = name

(* The handler of the earliest-registered command of that name. *)
HandlerOf(name) ==
    LET k == CHOOSE i \in 1 .. Len(shell_commands) :
                 /\ shell_commands[i].name = name
                 /\ \A j \in 1 .. (i - 1) : shell_commands[j].name # name
    IN  shell_commands[k].func

(* The handlers that the shell_execute called itself, not those a nested   *)
(* shell_execute (the one of `time`) called.                               *)
OwnCalls(calls) ==
    LET Own(c) == c.depth = 0 IN SelectSeq(calls, Own)

(* What the step of a shell_execute does with a line whose first word is   *)
(* word: the dispatch of a registered command, or the report of an unknown *)
(* one.                                                                    *)
DispatchedOn(word) ==
    IF Registered(word)
    THEN /\ Len(OwnCalls(disp'.calls)) = 1
         /\ disp'.calls[1].func = HandlerOf(word)
         /\ disp'.calls[1].depth = 0
         /\ pc' = "idle" => (disp'.hret # NoRet /\ last_exit' = disp'.hret[1])
    ELSE /\ disp'.calls = <<>>
         /\ last_exit' = SHELL_NOT_FOUND
         /\ last'.ret = Ret(SHELL_NOT_FOUND)
         /\ running' = running
         /\ pc' = "idle"

(* The same of a line with the words `words`, if it has any. *)
DispatchedOnFirst(words) == words # <<>> => DispatchedOn(words[1])

(* cmd_fg / cmd_bg, suspended inside shell_fg / shell_bg, returns to the   *)
(* shell_execute that called it: its value, SHELL_OK, is the last exit.    *)
HandlerResumed ==
    (pc # "idle" /\ via = "shell_execute" /\ pc' = "idle")
        => last_exit' = SHELL_OK

(* C10, as claimed: shell_execute of a line whose first word names a       *)
(* registered command calls that command's handler exactly once and sets   *)
(* last_exit to the value the handler returns; if the first word names no  *)
(* registered command, no handler is called, last_exit becomes 127, 127 is *)
(* returned and running is unchanged.                                      *)
C10_DispatchOnFirstWord ==
    [][/\ disp'.op = "shell_execute"
            => DispatchedOnFirst(LineWords(disp'.line))
       /\ HandlerResumed]_vars

(* C10, amended: the first word is argv[0] of the line as shell_execute    *)
(* reads it: the first SHELL_MAX_LINE - 1 characters of the line, expanded *)
(* into a buffer of SHELL_MAX_LINE bytes and split.  If it names a         *)
(* registered command, shell_execute calls that command's handler exactly  *)
(* once and sets last_exit to the value the handler returns; if it names   *)
(* none, no handler is called, last_exit becomes 127, 127 is returned and  *)
(* running is unchanged.                                                   *)
C10_DispatchOnArgv0 ==
    [][/\ (disp'.op = "shell_execute" /\ ~ExecSkipped(disp'.line))
            => DispatchedOnFirst(ExecArgv(ShellRec, disp'.line))
       /\ HandlerResumed]_vars

(* The line `$X` has been executed after `set X true`, whose handler       *)
(* returned OK: the handler of `true` was called and last_exit is its      *)
(* value.                                                                  *)
C10_Witness ==
    /\ disp.op = "shell_execute"
    /\ disp.line = <<"$", "X">>
    /\ disp.calls = <<[func |-> "cmd_true", depth |-> 0, ret |-> Ret(SHELL_OK)]>>
    /\ last_exit = SHELL_OK
    /\ executed = 2
    /\ \E i \in HistSlots : history[i].command = <<"s", "e", "t", " ", "X", " ", "t", "r", "u", "e">>

(* The step has done what the command line argv asks of `set NAME VALUE`,  *)
(* `unset NAME`, `alias NAME VALUE` or `unalias NAME`: the variable or the *)
(* alias is defined with the value after it, or was defined before it and  *)
(* is no longer.                                                           *)
Succeeded(argv) ==
    \/ /\ Len(argv) = 3
       /\ argv[1] = <<"s", "e", "t">>
       /\ shell_getenv(shell_env', argv[2]) = argv[3]
    \/ /\ Len(argv) = 2
       /\ argv[1] = <<"u", "n", "s", "e", "t">>
       /\ shell_getenv(shell_env, argv[2]) # NoString
       /\ shell_getenv(shell_env', argv[2]) = NoString
    \/ /\ Len(argv) = 3
       /\ argv[1] = <<"a", "l", "i", "a", "s">>
       /\ shell_alias_get(aliases', argv[2]) = argv[3]
    \/ /\ Len(argv) = 2
       /\ argv[1] = <<"u", "n", "a", "l", "i", "a", "s">>
       /\ shell_alias_get(aliases, argv[2]) # NoString
       /\ shell_alias_get(aliases', argv[2]) = NoString

(* C12: after a `set NAME VALUE`, `unset NAME`, `alias NAME VALUE` or      *)
(* `unalias NAME` that shell_execute dispatched and that succeeded, the    *)
(* last exit status is 0.                                                  *)
C12_SuccessExitsZero ==
    [][(/\ disp'.op = "shell_execute"
        /\ ~ExecSkipped(disp'.line)
        /\ Succeeded(ExecArgv(ShellRec, disp'.line)))
            => last_exit' = SHELL_OK]_vars

(* The value of the alias that the command word of argv names, NoString    *)
(* when argv is empty or its command word names none.                      *)
AliasOf(argv) ==
    IF argv = <<>> THEN NoString ELSE shell_alias_get(aliases, argv[1])

(* C18: while an alias is defined for the command word of a line,          *)
(* shell_execute of the line dispatches the command that the value of the  *)
(* alias gives, not the command word itself.                               *)
C18_AliasSubstituted ==
    [][(/\ disp'.op = "shell_execute"
        /\ ~ExecSkipped(disp'.line)
        /\ AliasOf(ExecArgv(ShellRec, disp'.line)) # NoString)
            => DispatchedOnFirst(
                   shell_parse_line(AliasOf(ExecArgv(ShellRec, disp'.line)),
                                    SHELL_MAX_ARGS))]_vars

(***************************************************************************)
(* The command registry under registrations and lookups                    *)
(***************************************************************************)
(* The names registered and looked up: the name of a builtin, a new name,  *)
(* and a name of SHELL_MAX_CMD characters, one more than an entry holds,   *)
(* with the part of it that an entry holds.                                *)
LongName == [i \in 1 .. SHELL_MAX_CMD |-> "n"]

RegNames == {<<"t", "r", "u", "e">>, <<"x">>, LongName}

FindNames == RegNames \cup {SubSeq(LongName, 1, SHELL_MAX_CMD - 1)}

RegFuncs == {"cmd_true", "cmd_false"}

RegStep(op, name, func, ret) ==
    [op |-> op, name |-> name, func |-> func, ret |-> ret]

RegRegister ==
    \E name \in RegNames, func \in RegFuncs :
        /\ pc = "idle"
        /\ LET r == shell_register_command(shell_commands, name, func)
           IN  /\ shell_commands' = r.cmds
               /\ last' = RegStep("shell_register_command", name, func, Ret(r.ret))
        /\ UNCHANGED <<last_exit, running, interactive, cwd, shell_env,
                       aliases, alias_count, executed, disp>>

RegFind ==
    \E name \in FindNames :
        /\ pc = "idle"
        /\ last' = RegStep("shell_find_command", name, "",
                           Ret(shell_find_command(shell_commands, name)))
        /\ UNCHANGED execvars

RegNext ==
    \/ RegRegister /\ UNCHANGED <<jobvars, histvars, argvars, scriptvars>>
    \/ RegFind /\ UNCHANGED <<jobvars, histvars, argvars, scriptvars>>

RegSpec == Init /\ [][RegNext]_vars

(* The positions of the entries of the table that carry the name. *)
EntriesNamed(cmds, name) == {i \in 1 .. Len(cmds) : cmds[i].name = name}

(* C11: shell_register_command returns OK and appends an entry, whether or *)
(* not the name is registered already, while the table holds fewer entries *)
(* than it has slots, and returns SYSERR and leaves the table as it is     *)
(* once it is full; shell_find_command returns the entry registered first  *)
(* among those that carry the name, and NULL when none does.               *)
C11_RegisterCapacityFindFirst ==
    [][/\ last'.op = "shell_register_command"
          => IF Len(shell_commands) < MaxCommands
             THEN /\ last'.ret = Ret(OK)
                  /\ Len(shell_commands') = Len(shell_commands) + 1
                  /\ SubSeq(shell_commands', 1, Len(shell_commands)) = shell_commands
                  /\ shell_commands'[Len(shell_commands')] =
                         [name |-> Prefix(last'.name, SHELL_MAX_CMD - 1),
                          func |-> last'.func]
             ELSE /\ last'.ret = Ret(SYSERR)
                  /\ shell_commands' = shell_commands
       /\ last'.op = "shell_find_command"
          => LET named == EntriesNamed(shell_commands, last'.name)
                 found == last'.ret[1]
             IN  IF named = {} THEN found = NULL
                 ELSE found \in named /\ \A j \in named : found <= j]_vars

(* The table is full and holds `true` twice, the builtin and a later       *)
(* registration with another handler; the lookup of `true` has returned    *)
(* the builtin.                                                            *)
C11_Witness ==
    /\ last.op = "shell_find_command"
    /\ last.name = <<"t", "r", "u", "e">>
    /\ Len(shell_commands) = MaxCommands
    /\ Cardinality(EntriesNamed(shell_commands, last.name)) >= 2
    /\ shell_commands[last.ret[1]].func = "cmd_true"
    /\ \E j \in EntriesNamed(shell_commands, last.name) :
           j > last.ret[1] /\ shell_commands[j].func = "cmd_false"

(***************************************************************************)
(* shell_parse_line by itself                                              *)
(***************************************************************************)
(* The characters of the lines split: a letter, a blank, the two quotes,   *)
(* the backslash and the comment sign.                                     *)
ParseChars == {"a", " ", "\"", "'", "\\", "#"}

(* The lines split: every line of up to MaxParseLen of these characters,   *)
(* `a "b c" d`, `a\ b`, a line with tabs and a line of four words.         *)
ParseLines ==
    UNION {[1 .. n -> ParseChars] : n \in 0 .. MaxParseLen}
        \cup {<<"a", " ", "\"", "b", " ", "c", "\"", " ", "d">>,
              <<"a", "\\", " ", "b">>,
              <<"\t", "a", "\t", "b", "\t">>,
              <<"a", " ", "b", " ", "c", " ", "d">>}

ParseArgs ==
    [op : {"shell_parse_line"}, line : ParseLines, max_args : 0 .. MaxParseArgs]

ParseInit ==
    JobInit /\ HistInit /\ ExecInit /\ ScriptInit /\ arg \in ParseArgs

ParseLine ==
    /\ arg.op = "shell_parse_line"
    /\ last' = [op |-> "shell_parse_line",
                argc |-> Len(shell_parse_line(arg.line, arg.max_args)),
                argv |-> ParseArgv(arg.line, arg.max_args)]
    /\ UNCHANGED <<jobvars, histvars, execvars, argvars, scriptvars>>

ParseNext == ParseLine

ParseSpec == ParseInit /\ [][ParseNext]_vars

(* The first n elements of a sequence, all of them when it has fewer. *)
Take(seq, n) == SubSeq(seq, 1, Min(Len(seq), n))

(* The tokens of a line, read character by character: toks are the tokens  *)
(* that are complete, tok is the token being read if open holds, q is the  *)
(* quote character of the quoted span being read, NUL outside one.  A `#`  *)
(* outside quotes that is not escaped ends the line if it starts a word,   *)
(* and also inside a word if anywhere holds.                               *)
RECURSIVE RefSplit(_, _, _, _, _, _, _)
RefSplit(line, p, toks, tok, open, q, anywhere) ==
    IF p > Len(line)
    THEN IF open THEN Append(toks, tok) ELSE toks
    ELSE IF line[p] = "\\" /\ p < Len(line)
    THEN RefSplit(line, p + 2, toks, Append(tok, line[p + 1]), TRUE, q, anywhere)
    ELSE IF q # NUL
    THEN IF line[p] = q
         THEN RefSplit(line, p + 1, toks, tok, TRUE, NUL, anywhere)
         ELSE RefSplit(line, p + 1, toks, Append(tok, line[p]), TRUE, q, anywhere)
    ELSE IF line[p] \in {"\"", "'"}
    THEN RefSplit(line, p + 1, toks, tok, TRUE, line[p], anywhere)
    ELSE IF line[p] \in {" ", "\t"}
    THEN RefSplit(line, p + 1, IF open THEN Append(toks, tok) ELSE toks,
                  <<>>, FALSE, NUL, anywhere)
    ELSE IF line[p] = "#" /\ (anywhere \/ ~open)
    THEN IF open THEN Append(toks, tok) ELSE toks
    ELSE RefSplit(line, p + 1, toks, Append(tok, line[p]), TRUE, NUL, anywhere)

(* The tokens of the line, a `#` starting a comment at the start of a word. *)
Tokens(line) == RefSplit(line, 1, <<>>, <<>>, FALSE, NUL, FALSE)

(* The tokens of the line, a `#` starting a comment wherever it occurs. *)
TokensCommentAnywhere(line) == RefSplit(line, 1, <<>>, <<>>, FALSE, NUL, TRUE)

(* The tokens argv[0 .. argc - 1] of the call just made. *)
ParsedTokens == [i \in 1 .. last.argc |-> last.argv[i - 1]]

(* C13: for every line and every max_args, shell_parse_line writes only    *)
(* argv[0 .. max_args - 1], returns argc <= max_args - 1, leaves the null  *)
(* pointer in argv[argc] and a token in every argv[i] with i < argc, and   *)
(* drops the tokens beyond the limit.                                      *)
C13_ParseWithinMaxArgs ==
    last.op = "shell_parse_line"
        => /\ DOMAIN last.argv \subseteq 0 .. (arg.max_args - 1)
           /\ last.argc <= arg.max_args - 1
           /\ last.argc \in DOMAIN last.argv
           /\ last.argv[last.argc] = NoString
           /\ \A i \in 0 .. (last.argc - 1) :
                  i \in DOMAIN last.argv /\ last.argv[i] # NoString
           /\ ParsedTokens = Take(Tokens(arg.line), arg.max_args - 1)

(* C14: shell_parse_line gives the tokens of the line as the reference     *)
(* splitter reads them, up to the limit: a blank or tab outside quotes     *)
(* that is not escaped ends a token, a quote opens a span that only the    *)
(* same quote closes and both are removed, a backslash followed by a       *)
(* character gives that character inside and outside quotes, and a quote   *)
(* that is not closed runs to the end of the line; `a "b c" d` gives       *)
(* a, b c, d and `a\ b` gives a b.                                         *)
C14_ParseTokenises ==
    last.op = "shell_parse_line"
        => /\ ParsedTokens = Take(Tokens(arg.line), arg.max_args - 1)
           /\ (/\ arg.line = <<"a", " ", "\"", "b", " ", "c", "\"", " ", "d">>
               /\ arg.max_args >= 4)
                  => ParsedTokens = <<<<"a">>, <<"b", " ", "c">>, <<"d">>>>
           /\ (/\ arg.line = <<"a", "\\", " ", "b">>
               /\ arg.max_args >= 2)
                  => ParsedTokens = <<<<"a", " ", "b">>>>

(* The line `a "b c" d` has been split into the three tokens a, b c, d. *)
C14_Witness ==
    /\ last.op = "shell_parse_line"
    /\ arg.line = <<"a", " ", "\"", "b", " ", "c", "\"", " ", "d">>
    /\ arg.max_args = 4
    /\ last.argc = 3
    /\ last.argv = (0 :> <<"a">> @@ 1 :> <<"b", " ", "c">> @@ 2 :> <<"d">>
                    @@ 3 :> NoString)

(* C15: a `#` outside quotes that is not escaped starts a comment wherever *)
(* it occurs in the line: neither it nor a character after it is part of a *)
(* token.                                                                  *)
C15_CommentAnywhere ==
    last.op = "shell_parse_line"
        => ParsedTokens = Take(TokensCommentAnywhere(arg.line), arg.max_args - 1)

(***************************************************************************)
(* shell_expand by itself                                                  *)
(***************************************************************************)
(* The inputs expanded: every text of up to MaxExpandLen of the characters *)
(* a, $, ? and ~, and texts with a name in braces, a name of several       *)
(* characters and a ~ after a colon and after a letter.                    *)
ExpandChars == {"a", "$", "?", "~"}

ExpandInputs ==
    UNION {[1 .. n -> ExpandChars] : n \in 0 .. MaxExpandLen}
        \cup {<<"$", "{", "a", "}", "a">>,
              <<"$", "a", "_", " ", "$", "?">>,
              <<"a", ":", "~", "a", "~">>}

ExpandArgs ==
    [op : {"shell_expand"}, input : ExpandInputs, size : 0 .. MaxExpandSize]

ExpandInit ==
    JobInit /\ HistInit /\ ExecInit /\ ScriptInit /\ arg \in ExpandArgs

(* The variable defined and the status the shell exits with before the     *)
(* expansion.                                                              *)
ExpandVar == [name |-> <<"a">>, value |-> <<"b", "c">>]

ExpandStatus == 0 - 12

(* shell_setenv(name, value), called before the expansion. *)
ExpandSetenv ==
    /\ last.op = "shell_init"
    /\ shell_env' = shell_setenv(shell_env, ExpandVar.name, ExpandVar.value).env
    /\ UNCHANGED <<last, last_exit, running, interactive, cwd, aliases,
                   alias_count, shell_commands, executed, disp>>

(* shell_exit(status), called before the expansion. *)
ExpandExit ==
    /\ last.op = "shell_init"
    /\ running' = FALSE
    /\ last_exit' = ExpandStatus
    /\ UNCHANGED <<last, interactive, cwd, shell_env, aliases, alias_count,
                   shell_commands, executed, disp>>

(* shell_expand(input, output, size): the text left in output, the number  *)
(* of bytes of output written, the terminating NUL among them, and the     *)
(* value returned.                                                         *)
Expand ==
    /\ arg.op = "shell_expand"
    /\ LET out == shell_expand(arg.input, arg.size, shell_env, last_exit, currpid)
       IN  last' = [op |-> "shell_expand", out |-> out,
                    written |-> Len(out) + 1, ret |-> Ret(OK)]
    /\ UNCHANGED execvars

ExpandNext ==
    \/ ExpandSetenv /\ UNCHANGED <<jobvars, histvars, argvars, scriptvars>>
    \/ ExpandExit /\ UNCHANGED <<jobvars, histvars, argvars, scriptvars>>
    \/ Expand /\ UNCHANGED <<jobvars, histvars, argvars, scriptvars>>

ExpandSpec == ExpandInit /\ [][ExpandNext]_vars

(* The input from position p on, cut into its pieces in order: a           *)
(* substitution with the text that stands for it, or a character that is   *)
(* part of none.  `$?` stands for the decimal text of the last exit status *)
(* and `$$` for that of the pid, before a name is looked for; `$name` and  *)
(* `${name}` stand for the value of the variable, for nothing when it is   *)
(* not defined; `~` at the start, after a blank or after a colon stands    *)
(* for the value of HOME, for `/` when it is not defined.                  *)
Piece(kind, text) == [kind |-> kind, text |-> text]

RECURSIVE Pieces(_, _)
Pieces(input, p) ==
    IF p > Len(input) THEN <<>>
    ELSE IF input[p] = "$" /\ CharAt(input, p + 1) = "?"
    THEN <<Piece("status", itoa(last_exit))>> \o Pieces(input, p + 2)
    ELSE IF input[p] = "$" /\ CharAt(input, p + 1) = "$"
    THEN <<Piece("pid", itoa(currpid))>> \o Pieces(input, p + 2)
    ELSE IF input[p] = "$"
    THEN LET braces == CharAt(input, p + 1) = "{"
             n == ScanName(input, IF braces THEN p + 2 ELSE p + 1, <<>>, braces)
             value == shell_getenv(shell_env, n.name)
         IN  <<Piece("name", IF value = NoString THEN <<>> ELSE value)>>
                 \o Pieces(input, n.p)
    ELSE IF input[p] = "~" /\ (p = 1 \/ input[p - 1] \in {" ", ":"})
    THEN LET home == shell_getenv(shell_env, <<"H", "O", "M", "E">>)
         IN  <<Piece("home", IF home = NoString THEN <<"/">> ELSE home)>>
                 \o Pieces(input, p + 1)
    ELSE <<Piece("char", <<input[p]>>)>> \o Pieces(input, p + 1)

(* The text of the piece, put after out, leaves room in a buffer of `size` *)
(* bytes for the terminating NUL.                                          *)
Fits(out, piece, size) == Len(out) + Len(piece.text) <= size - 1

(* The output of a buffer of `size` bytes that takes the pieces from the   *)
(* k-th on in order after out: each `$?` and `$$` whose text fits, each    *)
(* other substitution that shell_expand finds to fit, and each other       *)
(* character while there is room.                                          *)
RECURSIVE Fitted(_, _, _, _)
Fitted(pieces, k, out, size) ==
    IF k > Len(pieces) THEN out
    ELSE IF pieces[k].kind \in {"status", "pid"}
    THEN Fitted(pieces, k + 1,
                IF Fits(out, pieces[k], size) THEN out \o pieces[k].text ELSE out,
                size)
    ELSE IF pieces[k].kind \in {"name", "home"}
    THEN Fitted(pieces, k + 1, PutIfFits(out, pieces[k].text, size), size)
    ELSE IF Len(out) < size - 1
    THEN Fitted(pieces, k + 1, out \o pieces[k].text, size)
    ELSE out

(* The outputs that take the pieces from the k-th on in order after out,   *)
(* each substitution whole or not at all, and the other characters up to   *)
(* one where the output ends.                                              *)
RECURSIVE Outcomes(_, _, _)
Outcomes(pieces, k, out) ==
    IF k > Len(pieces) THEN {out}
    ELSE IF pieces[k].kind # "char"
    THEN Outcomes(pieces, k + 1, out \o pieces[k].text)
             \cup Outcomes(pieces, k + 1, out)
    ELSE Outcomes(pieces, k + 1, out \o pieces[k].text) \cup {out}

(* C16: shell_expand replaces every `$?` by the decimal text of the last   *)
(* exit status and every `$$` by the decimal text of the pid when the      *)
(* result fits the buffer, before it looks for a name, and copies the      *)
(* characters that are part of no substitution unchanged and in order.     *)
C16_ExpandStatusAndPid ==
    last.op = "shell_expand"
        => last.out = Fitted(Pieces(arg.input, 1), 1, <<>>, arg.size)

(* C17: for every input and every size, shell_expand writes at most size   *)
(* bytes, the terminating NUL included, so that the output is at most      *)
(* size - 1 characters long; a substitution is written whole or not at     *)
(* all, and the call returns OK.                                           *)
C17_ExpandWithinSize ==
    last.op = "shell_expand"
        => /\ last.written <= arg.size
           /\ Len(last.out) <= arg.size - 1
           /\ last.out \in Outcomes(Pieces(arg.input, 1), 1, <<>>)
           /\ last.ret = Ret(OK)

(***************************************************************************)
(* The variables of a script context under the calls of a client           *)
(***************************************************************************)
(* The names of the calls: a short name, a name of SCRIPT_VAR_NAME_LEN     *)
(* characters, one more than a slot holds, and the part of it that a slot  *)
(* holds.                                                                  *)
LongVarName == [i \in 1 .. SCRIPT_VAR_NAME_LEN |-> "v"]

ScriptNames == {<<"x">>, LongVarName,
                SubSeq(LongVarName, 1, SCRIPT_VAR_NAME_LEN - 1)}

(* The assignments made: a value of each type, and a type that is none of  *)
(* them.  A value that is no string is named by a text of one element: the *)
(* number, or the array that the pointer points to.                        *)
ScriptValues ==
    {[type |-> "VAR_TYPE_INT", value |-> <<"7">>],
     [type |-> "VAR_TYPE_STRING", value |-> <<"s">>],
     [type |-> "VAR_TYPE_FLOAT", value |-> <<"1.5">>],
     [type |-> "VAR_TYPE_ARRAY", value |-> <<"array">>],
     [type |-> "VAR_TYPE_UNDEFINED", value |-> <<"7">>]}

ScriptStep(op, name, r) ==
    [op |-> op, name |-> name, ret |-> r.ret, type |-> r.type, value |-> r.value]

ScriptSetVar ==
    \E name \in ScriptNames, v \in ScriptValues :
        /\ script_ops < MaxScriptOps
        /\ LET r == script_set_var(Ctx, name, v.type, v.value)
           IN  /\ CtxBecomes(r.ctx)
               /\ UNCHANGED ctx_live
               /\ last' = ScriptStep("script_set_var", name,
                                     [ret |-> r.ret, type |-> v.type,
                                      value |-> v.value])
        /\ script_ops' = script_ops + 1

ScriptUnsetVar ==
    \E name \in ScriptNames :
        /\ script_ops < MaxScriptOps
        /\ LET r == script_unset_var(Ctx, name)
           IN  /\ CtxBecomes(r.ctx)
               /\ UNCHANGED ctx_live
               /\ last' = ScriptStep("script_unset_var", name,
                                     [ret |-> r.ret, type |-> NoType,
                                      value |-> NoString])
        /\ script_ops' = script_ops + 1

ScriptGetVar ==
    \E name \in ScriptNames :
        /\ last' = ScriptStep("script_get_var", name, script_get_var(Ctx, name))
        /\ UNCHANGED scriptvars

ScriptVarExists ==
    \E name \in ScriptNames :
        /\ last' = ScriptStep("script_var_exists", name,
                              [ret |-> script_var_exists(Ctx, name),
                               type |-> NoType, value |-> NoString])
        /\ UNCHANGED scriptvars

(* The client, which holds the context, sets the readonly flag of a        *)
(* variable: no function of the interpreter does.                          *)
ScriptSetReadonly ==
    \E i \in VarSlots :
        /\ script_ops < MaxScriptOps
        /\ script_vars[i].defined
        /\ ~script_vars[i].readonly
        /\ script_vars' = [script_vars EXCEPT ![i].readonly = TRUE]
        /\ last' = ScriptStep("readonly", script_vars[i].name,
                              [ret |-> OK, type |-> NoType,
                               value |-> NoString])
        /\ script_ops' = script_ops + 1
        /\ UNCHANGED <<var_count, funcvars, runvars>>

(* script_reset_context, which returns nothing. *)
ScriptResetContext ==
    /\ ctx_live
    /\ script_ops < MaxScriptOps
    /\ CtxBecomes(script_reset_context(Ctx))
    /\ last' = ScriptStep("script_reset_context", <<>>,
                          [ret |-> OK, type |-> NoType, value |-> NoString])
    /\ script_ops' = script_ops + 1
    /\ UNCHANGED ctx_live

ScriptNext ==
    \/ ScriptSetVar /\ UNCHANGED <<jobvars, histvars, execvars, argvars>>
    \/ ScriptResetContext /\ UNCHANGED <<jobvars, histvars, execvars, argvars>>
    \/ ScriptUnsetVar /\ UNCHANGED <<jobvars, histvars, execvars, argvars>>
    \/ ScriptGetVar /\ UNCHANGED <<jobvars, histvars, execvars, argvars>>
    \/ ScriptVarExists /\ UNCHANGED <<jobvars, histvars, execvars, argvars>>
    \/ ScriptSetReadonly /\ UNCHANGED <<jobvars, histvars, execvars, argvars>>

ScriptSpec == Init /\ [][ScriptNext]_vars

(* The step is the call op that follows a call of script_set_var /         *)
(* script_unset_var (as `after` says) that returned OK, on the same name.  *)
Follows(after, op) ==
    /\ last.op = after
    /\ last.ret = OK
    /\ last'.op = op
    /\ last'.name = last.name

(* C19: script_get_var after a script_set_var that succeeded with one of   *)
(* the four types, on the same name, returns OK and reports that type and  *)
(* that value, whatever the variable was before; script_var_exists is true *)
(* after it; after a script_unset_var that succeeded, script_get_var and   *)
(* script_unset_var on the name fail.                                      *)
C19_SetGetRoundTrip ==
    [][/\ (Follows("script_set_var", "script_get_var") /\ last.type \in VarTypes)
              => (/\ last'.ret = OK
                  /\ last'.type = last.type
                  /\ last'.value = last.value)
       /\ Follows("script_set_var", "script_var_exists")
              => last'.ret = TRUE
       /\ (\/ Follows("script_unset_var", "script_get_var")
           \/ Follows("script_unset_var", "script_unset_var"))
              => last'.ret = SYSERR]_vars

(* C20: while the readonly flag of a variable is set, every script_set_var *)
(* and script_unset_var on its name returns SYSERR and leaves the variable *)
(* defined, with its type and value, and the variable count as they are.   *)
C20_ReadonlyRejectsMutation ==
    [][\A i \in VarSlots :
           (/\ script_vars[i].defined
            /\ script_vars[i].readonly
            /\ last'.op \in {"script_set_var", "script_unset_var"}
            /\ last'.name = script_vars[i].name)
               => (/\ last'.ret = SYSERR
                   /\ script_vars'[i] = script_vars[i]
                   /\ var_count' = var_count)]_vars

(* The number of slots of vars[] that are defined. *)
DefinedVars(slots) == Cardinality({i \in VarSlots : slots[i].defined})

(* C21: var_count is the number of defined slots of vars[] and lies in     *)
(* 0 .. SCRIPT_MAX_VARS; script_set_var of a name that no defined variable *)
(* has, with one of the four types, returns OK and defines one more        *)
(* variable while fewer than SCRIPT_MAX_VARS are defined (a slot that      *)
(* script_unset_var freed among them), and with SCRIPT_MAX_VARS defined it *)
(* returns SYSERR and leaves every variable as it is.                      *)
C21_VarTableCapacity ==
    [][/\ var_count = DefinedVars(script_vars)
       /\ var_count' = DefinedVars(script_vars')
       /\ var_count' \in 0 .. SCRIPT_MAX_VARS
       /\ (/\ last'.op = "script_set_var"
           /\ last'.type \in VarTypes
           /\ find_var(Ctx, last'.name) = NULL)
              => IF var_count < SCRIPT_MAX_VARS
                 THEN /\ last'.ret = OK
                      /\ var_count' = var_count + 1
                      /\ \E i \in VarSlots :
                             /\ ~script_vars[i].defined
                             /\ script_vars'[i].defined
                             /\ script_vars'[i].type = last'.type
                             /\ \A k \in VarSlots \ {i} :
                                    script_vars'[k] = script_vars[k]
                 ELSE /\ last'.ret = SYSERR
                      /\ script_vars' = script_vars
                      /\ var_count' = var_count]_vars

(* C21: a script_set_var of a new name was refused by a full table, after  *)
(* which every slot is still defined.                                      *)
C21_Witness ==
    /\ last.op = "script_set_var"
    /\ last.type \in VarTypes
    /\ last.ret = SYSERR
    /\ var_count = SCRIPT_MAX_VARS
    /\ \A i \in VarSlots : script_vars[i].defined /\ ~script_vars[i].readonly
    /\ find_var(Ctx, last.name) = NULL

(* C22: no two defined script variables have the same stored name, and no *)
(* two defined environment entries have the same stored name.              *)
C22_UniqueNames ==
    /\ \A i, k \in VarSlots :
           (i # k /\ script_vars[i].defined /\ script_vars[k].defined)
               => ~streq(script_vars[i].name, script_vars[k].name)
    /\ \A i, k \in EnvSlots :
           (i # k /\ shell_env[i].defined /\ shell_env[k].defined)
               => ~streq(shell_env[i].name, shell_env[k].name)

(***************************************************************************)
(* The functions of a script context and the buffers of their bodies,      *)
(* over the life of the context                                            *)
(***************************************************************************)
FuncNames == {<<"f">>, <<"g">>}

FuncBodies == {<<"x", "=", "1">>, <<"r", "e", "t", "u", "r", "n", " ", "2">>}

FuncStep(op, name, body, ret) ==
    [op |-> op, name |-> name, body |-> body, ret |-> ret]

ScriptDefineFunc ==
    \E name \in FuncNames, body \in FuncBodies, num_params \in {0, 1},
       mem \in getmem(heap) :
        /\ ctx_live
        /\ script_ops < MaxScriptOps
        /\ FreshBodies(heap) # {}
        /\ LET r == script_define_func(Ctx, name, body, num_params, mem)
           IN  /\ CtxBecomes(r.ctx)
               /\ last' = FuncStep("script_define_func", name, body, r.ret)
        /\ script_ops' = script_ops + 1
        /\ UNCHANGED ctx_live

FuncResetContext ==
    /\ ctx_live
    /\ script_ops < MaxScriptOps
    /\ CtxBecomes(script_reset_context(Ctx))
    /\ last' = FuncStep("script_reset_context", <<>>, <<>>, OK)
    /\ script_ops' = script_ops + 1
    /\ UNCHANGED ctx_live

(* script_destroy_context: the memory of the context keeps what it held. *)
ScriptDestroyContext ==
    /\ ctx_live
    /\ script_ops < MaxScriptOps
    /\ heap' = script_destroy_context(Ctx)
    /\ ctx_live' = FALSE
    /\ last' = FuncStep("script_destroy_context", <<>>, <<>>, OK)
    /\ script_ops' = script_ops + 1
    /\ UNCHANGED <<script_vars, var_count, script_funcs, func_count, runvars>>

(* What getmem can return for a context after one was destroyed: memory    *)
(* that is clear, the memory of the destroyed context as it was left, or   *)
(* memory that holds anything else, such as a body that points to buffer b *)
(* and stacks and streams that are not empty.                              *)
ContextMemory ==
    {Ctx, [ClearContext EXCEPT !.heap = heap]} \cup
    {[Ctx EXCEPT !.funcs[0].body = b, !.vars[0].defined = TRUE,
                 !.labels[0].defined = TRUE, !.loop_sp = 1,
                 !.fds = [stdin_fd |-> 2, stdout_fd |-> 0, stderr_fd |-> 1]] :
        b \in BodyIds}

(* A call has freemem release a buffer that getmem did not hand out or     *)
(* that was released before: the behaviour of free is undefined.           *)
ReleasesWildly(before, after) ==
    \E b \in BodyIds :
        /\ after[b].frees > before[b].frees
        /\ ~before[b].allocated \/ after[b].frees > 1

(* The end of script_create_context with the context ctx: where free was   *)
(* handed a buffer it must not be handed, the call returns the context or  *)
(* ends the program, which makes no further call.                          *)
Created(ctx, returns) ==
    /\ ~returns => ReleasesWildly(heap, ctx.heap)
    /\ IF returns
       THEN /\ CtxBecomes(ctx)
            /\ ctx_live' = TRUE
            /\ script_ops' = script_ops + 1
            /\ last' = FuncStep("script_create_context", <<>>, <<>>, OK)
       ELSE /\ heap' = ctx.heap
            /\ script_ops' = MaxScriptOps
            /\ last' = FuncStep("abort", <<>>, <<>>, SYSERR)
            /\ UNCHANGED <<script_vars, var_count, script_funcs, func_count,
                           ctx_live, runvars>>

(* script_create_context after the context was destroyed:                  *)
(* script_reset_context reads the bodies in the memory before it writes    *)
(* them.                                                                   *)
ScriptCreateContext ==
    \E memory \in ContextMemory, returns \in BOOLEAN :
        /\ ~ctx_live
        /\ script_ops < MaxScriptOps
        /\ Created(script_create_context(memory), returns)

FuncNext ==
    \/ ScriptDefineFunc /\ UNCHANGED <<jobvars, histvars, execvars, argvars>>
    \/ FuncResetContext /\ UNCHANGED <<jobvars, histvars, execvars, argvars>>
    \/ ScriptDestroyContext /\ UNCHANGED <<jobvars, histvars, execvars, argvars>>
    \/ ScriptCreateContext /\ UNCHANGED <<jobvars, histvars, execvars, argvars>>

FuncSpec == Init /\ [][FuncNext]_vars

(* C23: no buffer of a function body is released twice; once the context   *)
(* is destroyed, every buffer script_define_func allocated has been        *)
(* released once; while the context lives, the body of a defined function  *)
(* is a buffer that is allocated and not released; and after a             *)
(* script_define_func that returned OK the function's body is a buffer     *)
(* that was not allocated before and holds the text of the argument.       *)
C23_BodiesReleasedOnce ==
    [][/\ \A b \in BodyIds : heap'[b].frees <= 1
       /\ ~ctx_live' =>
              \A b \in BodyIds : heap'[b].allocated => heap'[b].frees = 1
       /\ ctx_live' =>
              \A i \in FuncSlots :
                  script_funcs'[i].defined =>
                      /\ script_funcs'[i].body # NULL
                      /\ heap'[script_funcs'[i].body].allocated
                      /\ heap'[script_funcs'[i].body].frees = 0
       /\ (last'.op = "script_define_func" /\ last'.ret = OK) =>
              \E i \in FuncSlots :
                  /\ script_funcs'[i].defined
                  /\ script_funcs'[i].body # NULL
                  /\ ~heap[script_funcs'[i].body].allocated
                  /\ heap'[script_funcs'[i].body].text = last'.body]_vars

(***************************************************************************)
(* Scripts and functions executed in a script context                      *)
(***************************************************************************)
RunScripts ==
    {\* a label, a goto back to it and an assignment
     <<"a", ":", "\n", "g", "o", "t", "o", " ", "a", "\n", "x", "=", "1">>,
     \* a goto to a label of a later line
     <<"g", "o", "t", "o", " ", "b", "\n", "b", ":", "\n", "x", "=", "1">>,
     \* empty lines, a label, a return and a line after it
     <<"\n", "\n", "b", ":", "\n", "r", "e", "t", "u", "r", "n", " ", "3", "\n", "x", "=", "1">>,
     \* a label after a goto that succeeded
     <<"a", ":", "\n", "x", "=", "1", "\n", "g", "o", "t", "o", " ", "a", "\n", "b", ":">>,
     \* a goto to a label of another script
     <<"g", "o", "t", "o", " ", "b">>,
     \* an if with a comparison
     <<"i", "f", " ", "x", " ", "=", " ", "1", "\n", "y", "=", "2">>,
     \* the three keywords and a return without a value
     <<"w", "h", "i", "l", "e", " ", "1", "\n", "f", "o", "r", " ", "i", "\n", "i", "f", " ", "1", "\n", "r", "e", "t", "u", "r", "n">>,
     \* a return of a variable
     <<"x", "=", "7", "\n", "r", "e", "t", "u", "r", "n", " ", "$", "x">>,
     \* a break outside a loop
     <<"b", "r", "e", "a", "k", "\n", "x", "=", "1">>,
     \* a continue outside a loop, after blanks
     <<" ", "c", "o", "n", "t", "i", "n", "u", "e", "\n", "x", "=", "1">>}

CallArgs == {<<>>, <<<<"v">>>>, <<<<"v">>, <<"w">>>>}

(* The context and the record of a script_execute that returned r. *)
Executed(script, r) ==
    /\ CtxBecomes(r.ctx)
    /\ last' = [op |-> "script_execute", script |-> script,
                ret |-> r.ret, executed |-> r.executed]

ScriptExecute ==
    \E script \in RunScripts :
        /\ ctx_live
        /\ script_ops < MaxRunOps
        /\ Executed(script, script_execute(Ctx, script))
        /\ script_ops' = script_ops + 1
        /\ UNCHANGED ctx_live

(* The context and the record of a script_call_func that returned r. *)
Called(name, argv, r) ==
    /\ CtxBecomes(r.ctx)
    /\ last' = [op |-> "script_call_func", name |-> name,
                argv |-> argv, ret |-> r.ret, bound |-> r.bound,
                executed |-> r.executed]

ScriptCallFunc ==
    \E name \in FuncNames, argv \in CallArgs :
        /\ ctx_live
        /\ script_ops < MaxRunOps
        /\ Called(name, argv, script_call_func(Ctx, name, Len(argv), argv))
        /\ script_ops' = script_ops + 1
        /\ UNCHANGED ctx_live

(* The client, which holds the context, leaves call_sp at the end of the   *)
(* call stack: no script nests that many calls.                            *)
ScriptFillCallStack ==
    /\ ctx_live
    /\ script_ops < MaxRunOps
    /\ call_sp < SCRIPT_MAX_STACK
    /\ call_sp' = SCRIPT_MAX_STACK
    /\ last' = [op |-> "call_sp", ret |-> OK]
    /\ script_ops' = script_ops + 1
    /\ UNCHANGED <<script_vars, var_count, funcvars, script_labels,
                   label_count, line_num, script_running, exit_code, loop_sp,
                   call_stack, loop_stack, script_fds>>

RunNext ==
    \/ ScriptExecute /\ UNCHANGED <<jobvars, histvars, execvars, argvars>>
    \/ ScriptCallFunc /\ UNCHANGED <<jobvars, histvars, execvars, argvars>>
    \/ /\ script_ops < MaxRunOps
       /\ ScriptDefineFunc
       /\ UNCHANGED <<jobvars, histvars, execvars, argvars>>
    \/ /\ script_ops < MaxRunOps
       /\ FuncResetContext
       /\ UNCHANGED <<jobvars, histvars, execvars, argvars>>
    \/ ScriptFillCallStack /\ UNCHANGED <<jobvars, histvars, execvars, argvars>>

RunSpec == Init /\ [][RunNext]_vars

(* The name of parameter i: snprintf(param_name, .., "arg%d", i). *)
ParamName(i) == <<"a", "r", "g">> \o itoa(i)

(* The texts of the first n lines of a script. *)
FirstLines(script, n) ==
    [k \in 1 .. n |-> Lines(script, 1, 1)[k].text]

(* C24: script_call_func of a function that find_func finds, with call_sp  *)
(* below SCRIPT_MAX_STACK, executes the body in a context where the        *)
(* caller's line number is pushed on the call stack and arg0 .. arg(k-1),  *)
(* k the smaller of num_params and argc, are string variables that hold    *)
(* the arguments, and returns with call_sp and line_num as they were       *)
(* before the call; a call of a function that find_func does not find, or  *)
(* with call_sp at SCRIPT_MAX_STACK, returns SYSERR and changes nothing.   *)
C24_CallFuncFrame ==
    [][last'.op = "script_call_func" =>
          LET func == find_func(Ctx, last'.name)
              body == heap[script_funcs[func].body].text
              k == Min(script_funcs[func].num_params, Len(last'.argv))
          IN  IF func # NULL /\ call_sp < SCRIPT_MAX_STACK
              THEN /\ last'.bound.call_sp = call_sp + 1
                   /\ last'.bound.call_stack[call_sp] = line_num
                   /\ \A i \in 0 .. (k - 1) :
                          script_get_var(last'.bound, ParamName(i)) =
                              [ret |-> OK, type |-> "VAR_TYPE_STRING",
                               value |-> last'.argv[i + 1]]
                   /\ Len(last'.executed) >= 1
                   /\ Len(last'.executed) <= Len(Lines(body, 1, 1))
                   /\ [e \in DOMAIN last'.executed |-> last'.executed[e].text]
                          = FirstLines(body, Len(last'.executed))
                   /\ call_sp' = call_sp
                   /\ line_num' = line_num
              ELSE /\ last'.ret = SYSERR
                   /\ UNCHANGED <<script_vars, var_count, funcvars, runvars>>]_vars

(* The step is a run of a script: script_execute, by itself or for the     *)
(* body of a function.                                                     *)
IsRun(step) == step.op \in {"script_execute", "script_call_func"}

(* The line is `goto L` and nothing else: no label before it, no `=`. *)
IsGoto(text) ==
    /\ HasPrefix(SkipBlanks(text), <<"g", "o", "t", "o", " ">>)
    /\ StrChr(text, ":", 1) = 0
    /\ StrChr(text, "=", 1) = 0

GotoTarget(text) == SkipBlanks(SubSeq(SkipBlanks(text), 6, Len(SkipBlanks(text))))

(* The line starts with the definition `L:`. *)
Defines(text, L) ==
    LET p == SkipBlanks(text)
    IN  /\ Len(p) > Len(L)
        /\ L # <<>>
        /\ SubSeq(p, 1, Len(L)) = L
        /\ p[Len(L) + 1] = ":"
        /\ StrChr(L, ":", 1) = 0
        /\ L[1] # "#"

(* The label table holds L. *)
Recorded(labels, L) ==
    \E i \in LabelSlots : labels[i].defined /\ labels[i].name = L

(* C25: a `goto L` line returns OK exactly when the label table holds L    *)
(* as the line is executed, and the table holds L only if it held it when  *)
(* the run started or an earlier line of the run, or the line itself,      *)
(* defines L; a goto that fails is the last line the run executes; every   *)
(* label the table holds before a run is held after it.                    *)
C25_GotoNeedsRecordedLabel ==
    [][IsRun(last') =>
          /\ \A k \in DOMAIN last'.executed :
                 LET e == last'.executed[k]
                     L == GotoTarget(e.text)
                 IN  IsGoto(e.text) =>
                         /\ e.stmt = "goto"
                         /\ (e.ret = OK) <=> Recorded(e.labels, L)
                         /\ Recorded(e.labels, L) =>
                                \/ Recorded(script_labels, L)
                                \/ \E j \in 1 .. (k - 1) :
                                       Defines(last'.executed[j].text, L)
                         /\ e.ret # OK => k = Len(last'.executed)
          /\ \A i \in LabelSlots :
                 script_labels[i].defined =>
                     Recorded(script_labels', script_labels[i].name)]_vars

(* C25: a run stopped at a goto to a label that only a later line of the   *)
(* script defines, and left that line and the label out.                   *)
C25_Witness ==
    /\ last.op = "script_execute"
    /\ Len(last.executed) >= 1
    /\ LET k == Len(last.executed)
           e == last.executed[k]
           lines == Lines(last.script, 1, 1)
       IN  /\ IsGoto(e.text)
           /\ e.ret = SYSERR
           /\ k < Len(lines)
           /\ \E j \in (k + 1) .. Len(lines) :
                  Defines(lines[j].text, GotoTarget(e.text))
           /\ ~Recorded(script_labels, GotoTarget(e.text))

(* The line is `return` or `return expr` and nothing else: no label before *)
(* it, no `=`.                                                             *)
IsReturn(text) ==
    LET p == SkipBlanks(text)
    IN  /\ HasPrefix(p, <<"r", "e", "t", "u", "r", "n">>)
        /\ Len(p) > 6 => isblank(p[7])
        /\ StrChr(text, ":", 1) = 0
        /\ StrChr(text, "=", 1) = 0

ReturnExpr(text) == SkipBlanks(SubSeq(SkipBlanks(text), 7, Len(SkipBlanks(text))))

(* The integer an expression of a return stands for: 0 when there is none, *)
(* the number a variable of type int holds for `$name`, the number a       *)
(* decimal text denotes.                                                   *)
ExprValue(slots, expr) ==
    IF expr = <<>> THEN 0
    ELSE IF expr[1] = "$"
    THEN LET held == {i \in VarSlots : /\ slots[i].defined
                                        /\ slots[i].name = Tail(expr)
                                        /\ slots[i].type = "VAR_TYPE_INT"}
         IN  IF held = {} THEN 0 ELSE atoi(slots[CHOOSE i \in held : TRUE].value)
    ELSE atoi(expr)

(* C26: a return line is the last line a run executes, and the run then    *)
(* returns the value of the expression of the line, which is exit_code;    *)
(* a run that executes every line of its script and no return returns      *)
(* exit_code, which it leaves as it was; after a run running is false.     *)
C26_ReturnEndsRun ==
    [][IsRun(last') =>
          LET executed_ == last'.executed
              script == IF last'.op = "script_execute" THEN last'.script
                        ELSE heap[script_funcs[find_func(Ctx, last'.name)].body].text
              ran == last'.op = "script_execute" \/ executed_ # <<>>
          IN  ran =>
                /\ ~script_running'
                /\ \A k \in DOMAIN executed_ :
                       IsReturn(executed_[k].text) =>
                           /\ k = Len(executed_)
                           /\ last'.ret = ExprValue(executed_[k].vars,
                                                    ReturnExpr(executed_[k].text))
                           /\ exit_code' = last'.ret
                /\ (/\ Len(executed_) = Len(Lines(script, 1, 1))
                    /\ \A k \in DOMAIN executed_ : executed_[k].stmt # "return")
                       => (last'.ret = exit_code /\ exit_code' = exit_code)]_vars

(* C26: a run returned the value of a return line and left the lines after *)
(* it alone.                                                               *)
C26_Witness ==
    /\ last.op = "script_execute"
    /\ Len(last.executed) >= 1
    /\ LET e == last.executed[Len(last.executed)]
       IN  /\ IsReturn(e.text)
           /\ ReturnExpr(e.text) = <<"3">>
           /\ last.ret = 3
           /\ exit_code = 3
           /\ ~script_running
           /\ Len(last.executed) < Len(Lines(last.script, 1, 1))

(***************************************************************************)
(* The glob match by itself                                                *)
(***************************************************************************)
GlobPatternChars == {"a", "c", "*", "?"}

GlobStringChars == {"a", "b", "c"}

(* The patterns and the strings matched: every one of up to MaxGlobLen     *)
(* characters.                                                             *)
GlobArgs ==
    [op : {"expr_match_glob"},
     pattern : UNION {[1 .. n -> GlobPatternChars] : n \in 0 .. MaxGlobLen},
     string : UNION {[1 .. n -> GlobStringChars] : n \in 0 .. MaxGlobLen}]

GlobInit ==
    JobInit /\ HistInit /\ ExecInit /\ ScriptInit /\ arg \in GlobArgs

MatchGlob ==
    /\ arg.op = "expr_match_glob"
    /\ last' = [op |-> "expr_match_glob",
                ret |-> expr_match_glob(arg.pattern, arg.string)]
    /\ UNCHANGED <<jobvars, histvars, execvars, argvars, scriptvars>>

GlobNext == MatchGlob

GlobSpec == GlobInit /\ [][GlobNext]_vars

(* The wildcard match: the empty pattern matches the empty string, `*`     *)
(* followed by a pattern matches a string of which some end, the whole     *)
(* string and the empty end among them, matches that pattern, and another  *)
(* character followed by a pattern matches a string that starts with that  *)
(* character, or with any character if it is `?`, and goes on with a       *)
(* string that matches the pattern.                                        *)
RECURSIVE Matches(_, _)
Matches(pattern, string) ==
    IF pattern = <<>> THEN string = <<>>
    ELSE IF pattern[1] = "*"
    THEN \E k \in 0 .. Len(string) :
            Matches(Tail(pattern), SubSeq(string, k + 1, Len(string)))
    ELSE /\ string # <<>>
         /\ pattern[1] \in {"?", string[1]}
         /\ Matches(Tail(pattern), Tail(string))

(* The examples: a*c matches abc and ac, a?c matches abc and not ac. *)
GlobExamples ==
    /\ Matches(<<"a", "*", "c">>, <<"a", "b", "c">>)
    /\ Matches(<<"a", "*", "c">>, <<"a", "c">>)
    /\ Matches(<<"a", "?", "c">>, <<"a", "b", "c">>)
    /\ ~Matches(<<"a", "?", "c">>, <<"a", "c">>)

(* C27: expr_match_glob returns true exactly when the pattern matches the  *)
(* string as a wildcard pattern, of which the examples are instances.      *)
C27_GlobMatchesReference ==
    /\ GlobExamples
    /\ last.op = "expr_match_glob" =>
           (last.ret <=> Matches(arg.pattern, arg.string))

(* C27: a*c was matched with abc. *)
C27_Witness ==
    /\ last.op = "expr_match_glob"
    /\ arg.pattern = <<"a", "*", "c">>
    /\ arg.string = <<"a", "b", "c">>
    /\ last.ret = TRUE

(***************************************************************************)
(* The test builtin by itself                                              *)
(***************************************************************************)
(* The operands: the empty word, two words, three numerals, the operators  *)
(* and the closing bracket.                                                *)
TestWords ==
    {<<>>, <<"a">>, <<"b">>, <<"3">>, <<"1", "0">>, <<"-", "1">>,
     <<"-", "n">>, <<"-", "z">>, <<"=">>, <<"=", "=">>, <<"!", "=">>,
     <<"-", "e", "q">>, <<"-", "n", "e">>, <<"-", "l", "t">>,
     <<"-", "l", "e">>, <<"-", "g", "t">>, <<"-", "g", "e">>, <<"]">>}

(* The argument vectors: `test` or `[`, followed by up to n operands, or    *)
(* by n operands and a closing bracket.                                    *)
TestArgvs(n) ==
    LET operands == UNION {[1 .. k -> TestWords] : k \in 0 .. n}
        closed == {o \o <<<<"]">>>> : o \in [1 .. n -> TestWords]}
    IN  {<<name>> \o o : name \in {<<"t", "e", "s", "t">>, <<"[">>},
                         o \in operands \cup closed}

TestArgs(n) == [op : {"cmd_test"}, argv : TestArgvs(n)]

TestInit ==
    /\ JobInit /\ HistInit /\ ExecInit /\ ScriptInit
    /\ arg \in TestArgs(MaxTestArgs)

CmdTest ==
    /\ arg.op = "cmd_test"
    /\ last' = [op |-> "cmd_test", ret |-> cmd_test(arg.argv)]
    /\ UNCHANGED <<jobvars, histvars, execvars, argvars, scriptvars>>

TestNext == CmdTest

TestSpec == TestInit /\ [][TestNext]_vars

(* The numerals among the operands and the integers they denote. *)
Numerals == {<<"3">>, <<"1", "0">>, <<"-", "1">>}

IntegerOf(w) ==
    CASE w = <<"3">> -> 3 [] w = <<"1", "0">> -> 10 [] w = <<"-", "1">> -> 0 - 1

(* The operands of the expression: those of a `[` without the bracket     *)
(* that closes them.                                                       *)
TestExpr(argv) ==
    LET o == Tail(argv)
    IN  IF argv[1] = <<"[">> /\ o # <<>> /\ o[Len(o)] = <<"]">>
        THEN SubSeq(o, 1, Len(o) - 1) ELSE o

(* The expression has a shape the builtin knows and its operands, where    *)
(* they are compared as integers, are numerals.                            *)
TestKnown(e) ==
    \/ Len(e) = 1
    \/ Len(e) = 2 /\ e[1] \in {<<"-", "n">>, <<"-", "z">>}
    \/ Len(e) = 3 /\ e[2] \in {<<"=">>, <<"=", "=">>, <<"!", "=">>}
    \/ /\ Len(e) = 3
       /\ e[2] \in {<<"-", "e", "q">>, <<"-", "n", "e">>, <<"-", "l", "t">>,
                     <<"-", "l", "e">>, <<"-", "g", "t">>, <<"-", "g", "e">>}
       /\ e[1] \in Numerals
       /\ e[3] \in Numerals

(* The expression has no shape the builtin knows. *)
TestOther(e) ==
    \/ Len(e) \notin {1, 2, 3}
    \/ Len(e) = 2 /\ e[1] \notin {<<"-", "n">>, <<"-", "z">>}
    \/ Len(e) = 3 /\ e[2] \notin {<<"=">>, <<"=", "=">>, <<"!", "=">>,
                                    <<"-", "e", "q">>, <<"-", "n", "e">>,
                                    <<"-", "l", "t">>, <<"-", "l", "e">>,
                                    <<"-", "g", "t">>, <<"-", "g", "e">>}

(* The expression holds. *)
TestHolds(e) ==
    CASE Len(e) = 1 -> e[1] # <<>>
      [] Len(e) = 2 /\ e[1] = <<"-", "n">> -> e[2] # <<>>
      [] Len(e) = 2 /\ e[1] = <<"-", "z">> -> e[2] = <<>>
      [] Len(e) = 3 /\ e[2] \in {<<"=">>, <<"=", "=">>} -> e[1] = e[3]
      [] Len(e) = 3 /\ e[2] = <<"!", "=">> -> e[1] # e[3]
      [] Len(e) = 3 /\ e[2] = <<"-", "e", "q">> -> IntegerOf(e[1]) = IntegerOf(e[3])
      [] Len(e) = 3 /\ e[2] = <<"-", "n", "e">> -> IntegerOf(e[1]) # IntegerOf(e[3])
      [] Len(e) = 3 /\ e[2] = <<"-", "l", "t">> -> IntegerOf(e[1]) < IntegerOf(e[3])
      [] Len(e) = 3 /\ e[2] = <<"-", "l", "e">> -> IntegerOf(e[1]) <= IntegerOf(e[3])
      [] Len(e) = 3 /\ e[2] = <<"-", "g", "t">> -> IntegerOf(e[1]) > IntegerOf(e[3])
      [] Len(e) = 3 /\ e[2] = <<"-", "g", "e">> -> IntegerOf(e[1]) >= IntegerOf(e[3])

(* C28: cmd_test returns SHELL_OK when its expression has a known shape    *)
(* and holds, SHELL_ERROR when it has a known shape and does not hold, and *)
(* SHELL_ERROR when it has no known shape; the expression of `[` is taken  *)
(* without a closing bracket at its end.                                   *)
C28_TestEvaluates ==
    last.op = "cmd_test" =>
        LET e == TestExpr(arg.argv)
        IN  /\ last.ret \in {SHELL_OK, SHELL_ERROR}
            /\ TestKnown(e) => (last.ret = SHELL_OK <=> TestHolds(e))
            /\ TestOther(e) => last.ret = SHELL_ERROR

(* C28: `[ 3 -lt 10 ]` succeeded. *)
C28_Witness ==
    /\ last.op = "cmd_test"
    /\ arg.argv = <<<<"[">>, <<"3">>, <<"-", "l", "t">>, <<"1", "0">>, <<"]">>>>
    /\ last.ret = SHELL_OK

(* The names of the labels of the scripts. *)
LabelNames == {<<"a">>, <<"b">>}

(* C29: after a run has executed a line that defines a label, the label    *)
(* table holds for the label the position of the line among the lines of   *)
(* the script, the first line being line 1.                                *)
C29_LabelAtTextualLine ==
    [][IsRun(last') =>
          \A k \in DOMAIN last'.executed, L \in LabelNames :
              LET e == last'.executed[k]
              IN  Defines(e.text, L) =>
                      \E i \in LabelSlots :
                          /\ e.after[i].defined
                          /\ e.after[i].name = L
                          /\ e.after[i].line_num = e.at]_vars

(* The line begins with `if `, `while ` or `for `. *)
IsControl(text) ==
    \/ HasPrefix(SkipBlanks(text), <<"i", "f", " ">>)
    \/ HasPrefix(SkipBlanks(text), <<"w", "h", "i", "l", "e", " ">>)
    \/ HasPrefix(SkipBlanks(text), <<"f", "o", "r", " ">>)

(* C30: a line that begins with `if `, `while ` or `for ` returns OK and   *)
(* leaves the context as it was, and the run goes on with the next line of *)
(* the script if there is one.                                             *)
C30_ControlLinesAreNoOps ==
    [][IsRun(last') =>
          \A k \in DOMAIN last'.executed :
              LET e == last'.executed[k]
                  script == IF last'.op = "script_execute" THEN last'.script
                            ELSE heap[script_funcs[find_func(Ctx, last'.name)].body].text
                  lines == Lines(script, 1, 1)
              IN  IsControl(e.text) =>
                      /\ e.ret = OK
                      /\ e.unchanged
                      /\ k < Len(lines) =>
                             /\ Len(last'.executed) > k
                             /\ last'.executed[k + 1].at = lines[k + 1].at]_vars

(***************************************************************************)
(* The assignments of a script                                             *)
(***************************************************************************)
(* A name of SCRIPT_VAR_NAME_LEN characters, one more than var_name holds. *)
LongAssignName == [i \in 1 .. SCRIPT_VAR_NAME_LEN |-> "n"]

(* The scripts of one line each: assignments of a number and of a text,    *)
(* with a label before them, with blanks around the `=`, of a third name,  *)
(* with a keyword as the start of the name, comparisons, and assignments   *)
(* to a name var_name has no room for.                                     *)
AssignScripts ==
    {<<"x", "=", "7">>,
     <<"x", " ", "=", " ", "a", "b">>,
     <<"y", "=", "-", "0", "x", "1", "f">>,
     <<"a", ":", " ", "z", "=", "$", "x">>,
     <<"i", "f", " ", "x", " ", "=", "=", " ", "1">>,
     <<"x", "!", "=", "1">>,
     <<"x", "<", "=", "1">>,
     <<"=", "1">>,
     <<"g", "o", "t", "o", " ", "a", "=", "1">>,
     LongAssignName \o <<"=", "1">>,
     <<"g", "o", "t", "o", " ">> \o LongAssignName \o <<"=", "1">>}

AssignExecute ==
    \E script \in AssignScripts :
        /\ ctx_live
        /\ script_ops < MaxRunOps
        /\ Executed(script, script_execute(Ctx, script))
        /\ script_ops' = script_ops + 1
        /\ UNCHANGED ctx_live

AssignSetReadonly ==
    /\ script_ops < MaxRunOps
    /\ ScriptSetReadonly

AssignNext ==
    \/ AssignExecute /\ UNCHANGED <<jobvars, histvars, execvars, argvars>>
    \/ AssignSetReadonly /\ UNCHANGED <<jobvars, histvars, execvars, argvars>>

AssignSpec == Init /\ [][AssignNext]_vars

(* The text of a line after its blanks and after a label and the blanks    *)
(* that follow it.                                                         *)
Statement(text) ==
    LET p == SkipBlanks(text)
        colon == StrChr(p, ":", 1)
    IN  IF colon > 1 THEN SkipBlanks(SubSeq(p, colon + 1, Len(p))) ELSE p

(* The first `=` of a statement is not at its start and does not follow    *)
(* `!`, `<` or `>`.                                                        *)
IsAssignment(p) ==
    /\ StrChr(p, "=", 1) > 1
    /\ p[StrChr(p, "=", 1) - 1] \notin {"!", "<", ">"}

(* The text left of the `=` without the blanks it ends with. *)
AssignedName(p) ==
    LET left == SubSeq(p, 1, StrChr(p, "=", 1) - 1)
        ends == {k \in DOMAIN left : ~isblank(left[k])}
    IN  SubSeq(left, 1, CHOOSE k \in ends : \A j \in ends : j <= k)

(* The text right of the `=` without the blanks it starts with. *)
AssignedText(p) == SkipBlanks(SubSeq(p, StrChr(p, "=", 1) + 1, Len(p)))

(* The variable of the name can be set in the table: it is there and not   *)
(* readonly, or it is not there and a slot is free.                        *)
CanSet(table, name) ==
    \/ \E i \in VarSlots : /\ table[i].defined
                            /\ table[i].name = name
                            /\ ~table[i].readonly
    \/ /\ \A i \in VarSlots : ~(table[i].defined /\ table[i].name = name)
       /\ \E i \in VarSlots : ~table[i].defined

(* The variable of the name has the type and the value in the table. *)
Holds(table, name, type, value) ==
    \E i \in VarSlots : /\ table[i].defined
                         /\ table[i].name = name
                         /\ table[i].type = type
                         /\ table[i].value = value

(* C31: a line of a script whose statement has a first `=` that is not at  *)
(* its start and does not follow `!`, `<` or `>` takes the branch of the   *)
(* assignment and returns OK; where the variable named left of the `=`     *)
(* can be set, it is afterwards a VAR_TYPE_INT of the value                *)
(* script_eval_int gives the right-hand side when that starts with a       *)
(* digit, `+` or `-`, and a VAR_TYPE_STRING of the right-hand text         *)
(* otherwise; where it cannot be set, the variables stay as they were.     *)
C31_AssignmentLine ==
    last.op = "script_execute" =>
        \A k \in DOMAIN last.executed :
            LET e == last.executed[k]
                p == Statement(e.text)
                name == AssignedName(p)
                rhs == AssignedText(p)
            IN  IsAssignment(p) =>
                    /\ e.stmt = "assignment"
                    /\ e.ret = OK
                    /\ IF ~CanSet(e.vars, name) THEN e.set = e.vars
                       ELSE IF isdigit(CharAt(rhs, 1)) \/ CharAt(rhs, 1) \in {"-", "+"}
                       THEN Holds(e.set, name, "VAR_TYPE_INT",
                                  itoa(script_eval_int([Ctx EXCEPT !.vars = e.vars], rhs)))
                       ELSE Holds(e.set, name, "VAR_TYPE_STRING", rhs)

(***************************************************************************)
(* The evaluation of integer expressions                                   *)
(***************************************************************************)
EvalNames == {<<"i">>, <<"t">>}

(* The values of the variables: numbers, a string that fits into an        *)
(* int32_t with its NUL and one that does not, a double and an array.      *)
EvalValues ==
    {[type |-> "VAR_TYPE_INT", value |-> <<"7">>],
     [type |-> "VAR_TYPE_INT", value |-> <<"-", "3">>],
     [type |-> "VAR_TYPE_STRING", value |-> <<"a", "b", "c">>],
     [type |-> "VAR_TYPE_STRING", value |-> <<"t", "e", "x", "t">>],
     [type |-> "VAR_TYPE_FLOAT", value |-> <<"1.5">>],
     [type |-> "VAR_TYPE_ARRAY", value |-> <<"array">>]}

(* The expressions: variables with and without a sign, blanks and text     *)
(* after them, a variable that is not defined, literals of each base with  *)
(* and without digits, and literals at and past the ends of an int32_t.    *)
EvalExprs ==
    {<<"$", "i">>, <<"-", "$", "i">>, <<"+", "$", "t">>,
     <<" ", "\t", "-", "$", "t">>, <<"$", "i", "+", "1">>, <<"$", "u">>,
     <<"$", "t">>, <<>>, <<"7">>, <<"-", "7">>, <<"+", "1", "2", "a", "b">>,
     <<"-", " ", "5">>, <<"a", "b", "c">>,
     <<"0", "x", "1", "F">>, <<"-", "0", "X", "f", "f">>, <<"0", "x">>,
     <<"0", "1", "7">>, <<"-", "0", "1", "7">>, <<"0", "9">>, <<"0", "7", "8">>,
     <<"2", "1", "4", "7", "4", "8", "3", "6", "4", "7">>,
     <<"2", "1", "4", "7", "4", "8", "3", "6", "4", "8">>,
     <<"-", "2", "1", "4", "7", "4", "8", "3", "6", "4", "8">>,
     <<"4", "2", "9", "4", "9", "6", "7", "2", "9", "7">>,
     <<"0", "x", "F", "F", "F", "F", "F", "F", "F", "F">>,
     <<"0", "4", "0", "0", "0", "0", "0", "0", "0", "0", "0", "1">>}

EvalSetVar ==
    \E name \in EvalNames, v \in EvalValues :
        /\ ctx_live
        /\ script_ops < MaxRunOps
        /\ CtxBecomes(script_set_var(Ctx, name, v.type, v.value).ctx)
        /\ last' = [op |-> "script_set_var", expr |-> name, ret |-> OK,
                    written |-> 0, ended |-> FALSE]
        /\ script_ops' = script_ops + 1
        /\ UNCHANGED ctx_live

(* script_eval_int, which reads the context; a call that ends the program  *)
(* ends the context with it.                                               *)
ScriptEvalInt ==
    \E expr \in EvalExprs :
        \E o \in EvalOutcomes(Ctx, expr) :
            /\ ctx_live
            /\ script_ops < MaxRunOps
            /\ last' = [op |-> "script_eval_int", expr |-> expr,
                        ret |-> o.ret, written |-> o.written,
                        ended |-> o.ended]
            /\ ctx_live' = ~o.ended
            /\ script_ops' = script_ops + 1
            /\ UNCHANGED <<script_vars, var_count, script_funcs, func_count,
                           heap, runvars>>

EvalNext ==
    \/ EvalSetVar /\ UNCHANGED <<jobvars, histvars, execvars, argvars>>
    \/ ScriptEvalInt /\ UNCHANGED <<jobvars, histvars, execvars, argvars>>

EvalSpec == Init /\ [][EvalNext]_vars

(* The characters of s from position k on that come before the first one   *)
(* that is no digit of the base.                                           *)
DigitRun(s, k, base) ==
    LET stops == {j \in k .. Len(s) : XDigitVal(s[j]) >= base}
    IN  SubSeq(s, k, IF stops = {} THEN Len(s)
                     ELSE (CHOOSE j \in stops : \A h \in stops : j <= h) - 1)

(* The number the digits are in the base, as a 32-bit integer. *)
RECURSIVE NumberOf(_, _)
NumberOf(digits, base) ==
    IF digits = <<>> THEN 0
    ELSE MulAdd32(NumberOf(SubSeq(digits, 1, Len(digits) - 1), base), base,
                  XDigitVal(digits[Len(digits)]))

(* The name after a `$`: the letters, digits and `_` that follow it, 63    *)
(* of them at most.                                                        *)
ReferredName(s) ==
    LET stops == {j \in 2 .. Len(s) : ~isalnum(s[j]) /\ s[j] # "_"}
        end == IF stops = {} THEN Len(s)
               ELSE (CHOOSE j \in stops : \A h \in stops : j <= h) - 1
    IN  SubSeq(s, 2, Min(end, 64))

(* The value the statement gives an expression in a table of variables. *)
EvalValue(table, expr) ==
    LET p == SkipBlanks(expr)
        signed == p # <<>> /\ p[1] \in {"-", "+"}
        q == IF signed THEN Tail(p) ELSE p
        ints == {i \in VarSlots : /\ table[i].defined
                                  /\ table[i].name = ReferredName(q)
                                  /\ table[i].type = "VAR_TYPE_INT"}
        number ==
            IF q # <<>> /\ q[1] = "$"
            THEN IF ints = {} THEN 0
                 ELSE atoi(table[CHOOSE i \in ints : TRUE].value)
            ELSE IF Len(q) >= 2 /\ q[1] = "0" /\ q[2] \in {"x", "X"}
            THEN NumberOf(DigitRun(q, 3, 16), 16)
            ELSE IF Len(q) >= 2 /\ q[1] = "0" /\ XDigitVal(q[2]) < 8
            THEN NumberOf(DigitRun(q, 2, 8), 8)
            ELSE NumberOf(DigitRun(q, 1, 10), 10)
    IN  IF p # <<>> /\ p[1] = "-" THEN Neg32(number) ELSE number

(* C32: a call of script_eval_int returns, writes no more than the 4 bytes *)
(* of its result, and returns the value of the expression: of the int      *)
(* variable after `$`, 0 for one that is not defined or of another type,   *)
(* or of the hexadecimal, octal or decimal digits, negated after `-`, as   *)
(* a 32-bit integer.                                                       *)
C32_EvalInt ==
    last.op = "script_eval_int" =>
        /\ ~last.ended
        /\ last.written <= 4
        /\ last.ret = EvalValue(script_vars, last.expr)

(***************************************************************************)
(* The reset of a context                                                  *)
(***************************************************************************)
(* C33: after script_reset_context no variable, function or label is       *)
(* defined, var_count, func_count and label_count are 0, loop_sp, call_sp  *)
(* and line_num are 0, running is false, exit_code is 0, the streams are   *)
(* 0, 1 and 2, no function holds a body, the context is allocated and no   *)
(* buffer has been released twice.                                         *)
C33_ResetYieldsEmptyState ==
    last.op = "script_reset_context" =>
        /\ \A i \in VarSlots : ~script_vars[i].defined
        /\ \A i \in FuncSlots : ~script_funcs[i].defined /\ script_funcs[i].body = NULL
        /\ \A i \in LabelSlots : ~script_labels[i].defined
        /\ var_count = 0 /\ func_count = 0 /\ label_count = 0
        /\ loop_sp = 0 /\ call_sp = 0 /\ line_num = 0
        /\ ~script_running
        /\ exit_code = 0
        /\ script_fds = [stdin_fd |-> 0, stdout_fd |-> 1, stderr_fd |-> 2]
        /\ ctx_live
        /\ \A b \in BodyIds : heap[b].frees <= 1

(* C33: a reset of a context that held a variable, a label and a function, *)
(* whose names and whose released body are still there.                    *)
C33_Witness ==
    /\ last.op = "script_reset_context"
    /\ \E i \in VarSlots : script_vars[i].name # <<>>
    /\ \E i \in LabelSlots : script_labels[i].name # <<>>
    /\ \E b \in BodyIds : heap[b].allocated /\ heap[b].frees = 1

(***************************************************************************)
(* The order of the lines of a run                                         *)
(***************************************************************************)
(* The positions of a script at which a line that is not empty starts. *)
LineStarts(script) ==
    {k \in DOMAIN script :
        script[k] # "\n" /\ (k = 1 \/ script[k - 1] = "\n")}

(* The line of a script that starts at position k. *)
LineAt(script, k) ==
    LET ends == {j \in k .. Len(script) : script[j] = "\n"}
    IN  SubSeq(script, k, IF ends = {} THEN Len(script)
                          ELSE (CHOOSE j \in ends : \A h \in ends : j <= h) - 1)

(* The n-th line of a script that is not empty. *)
NthLine(script, n) ==
    LineAt(script, CHOOSE k \in LineStarts(script) :
                       Cardinality({j \in LineStarts(script) : j < k}) = n - 1)

(* C34: script_execute returns, and the lines it executed are the first    *)
(* lines of the script that are not empty, each once and in the order of   *)
(* the text, whatever goto, break and continue did; it leaves a line out   *)
(* only after a line that failed or returned.                              *)
C34_EachLineOnceInOrder ==
    last.op = "script_execute" =>
        LET n == Len(last.executed)
            lines == Cardinality(LineStarts(last.script))
        IN  /\ n <= lines
            /\ \A k \in 1 .. n : last.executed[k].text = NthLine(last.script, k)
            /\ \A k \in 1 .. n - 1 :
                   /\ last.executed[k].at < last.executed[k + 1].at
                   /\ last.executed[k].ret = OK
                   /\ last.executed[k].stmt # "return"
            /\ n < lines =>
                   /\ n > 0
                   /\ \/ last.executed[n].ret # OK
                      \/ last.executed[n].stmt = "return"

(* C34: a run in which a goto to a label of an earlier line succeeded, so  *)
(* that line_num went back, and the line after the goto was executed next. *)
C34_Witness ==
    /\ last.op = "script_execute"
    /\ \E k \in 1 .. Len(last.executed) - 1 :
           /\ last.executed[k].stmt = "goto"
           /\ last.executed[k].ret = OK
           /\ line_num = 2
           /\ last.executed[k + 1].at = last.executed[k].at + 1

(***************************************************************************)
(* The stacks of a context                                                 *)
(***************************************************************************)
(* The line is a `break` or a `continue`. *)
IsLoopExit(text) ==
    SkipBlanks(text) \in {<<"b", "r", "e", "a", "k">>,
                          <<"c", "o", "n", "t", "i", "n", "u", "e">>}

(* C35: loop_sp is 0 and call_sp is between 0 and SCRIPT_MAX_STACK; a line *)
(* `break` or `continue` of a script returns SYSERR and leaves the context *)
(* with its line_num as it was, and it is the last line the run executes.  *)
C35_LoopStackEmpty ==
    /\ loop_sp = 0
    /\ call_sp \in 0 .. SCRIPT_MAX_STACK
    /\ last.op \in {"script_execute", "script_call_func"} =>
           \A k \in DOMAIN last.executed :
               IsLoopExit(last.executed[k].text) =>
                   /\ last.executed[k].ret = SYSERR
                   /\ last.executed[k].unchanged
                   /\ k = Len(last.executed)
                   /\ last.op = "script_execute" =>
                          line_num = last.executed[k].line_num

(* C35: a run that a `continue` ended before the last line of the script,  *)
(* in a context with a call stack that is full.                            *)
C35_Witness ==
    /\ last.op = "script_execute"
    /\ last.executed # <<>>
    /\ last.executed[Len(last.executed)].text =
           <<" ", "c", "o", "n", "t", "i", "n", "u", "e">>
    /\ Len(last.executed) < Cardinality(LineStarts(last.script))
    /\ call_sp = SCRIPT_MAX_STACK

(***************************************************************************)
(* The failures of script_set_var                                          *)
(***************************************************************************)
(* The variables of a table: the name, the type and the value of each slot *)
(* that is defined.                                                        *)
VarsOf(table) ==
    {[name |-> table[i].name, type |-> table[i].type, value |-> table[i].value] :
        i \in {k \in VarSlots : table[k].defined}}

(* C36: a script_set_var that returns SYSERR leaves the variables that are *)
(* defined, their types and values, and var_count as they were.            *)
C36_FailedSetLeavesContext ==
    [][last'.op = "script_set_var" /\ last'.ret = SYSERR =>
           /\ VarsOf(script_vars') = VarsOf(script_vars)
           /\ var_count' = var_count]_vars

(***************************************************************************)
(* The count of the functions                                              *)
(***************************************************************************)
(* The functions of a table: the name, the text of the body and the number *)
(* of parameters of each slot that is defined.                             *)
FuncsOf(table, heap_) ==
    {[name |-> table[i].name, num_params |-> table[i].num_params,
      body |-> IF table[i].body = NULL THEN NoString
               ELSE heap_[table[i].body].text,
      released |-> IF table[i].body = NULL THEN 0
                   ELSE heap_[table[i].body].frees] :
        i \in {k \in FuncSlots : table[k].defined}}

(* C37: after every call func_count is the number of function slots that   *)
(* are defined and at most SCRIPT_MAX_FUNCS, and a script_define_func that *)
(* returns SYSERR leaves the functions that were defined, their bodies and *)
(* their parameters as they were.                                          *)
C37_FuncCountMatchesSlots ==
    [][/\ func_count' = Cardinality({i \in FuncSlots : script_funcs'[i].defined})
       /\ func_count' \in 0 .. SCRIPT_MAX_FUNCS
       /\ last'.op = "script_define_func" /\ last'.ret = SYSERR =>
              FuncsOf(script_funcs', heap') = FuncsOf(script_funcs, heap)]_vars

(***************************************************************************)
(* The creation of a context                                               *)
(***************************************************************************)
(* C38: script_create_context returns, with a context in which nothing is  *)
(* defined, the counts, the stacks, line_num and exit_code are 0, running  *)
(* is false and the streams are 0, 1 and 2, and it releases no buffer; and *)
(* no call releases a buffer that was not allocated for a function body.   *)
C38_CreateReleasesNothing ==
    [][/\ last'.op \in {"script_create_context", "abort"} =>
              /\ last'.op = "script_create_context"
              /\ ctx_live'
              /\ \A i \in VarSlots : ~script_vars'[i].defined
              /\ \A i \in FuncSlots : /\ ~script_funcs'[i].defined
                                      /\ script_funcs'[i].body = NULL
              /\ \A i \in LabelSlots : ~script_labels'[i].defined
              /\ var_count' = 0 /\ func_count' = 0 /\ label_count' = 0
              /\ loop_sp' = 0 /\ call_sp' = 0 /\ line_num' = 0
              /\ ~script_running' /\ exit_code' = 0
              /\ script_fds' = [stdin_fd |-> 0, stdout_fd |-> 1, stderr_fd |-> 2]
              /\ \A b \in BodyIds : heap'[b].frees = heap[b].frees
       /\ \A b \in BodyIds : heap'[b].frees > 0 => heap'[b].allocated]_vars

(***************************************************************************)
(* The job a builtin names                                                 *)
(***************************************************************************)
(* The slot of the job `fg J` / `bg J` names: the one cmd_fg and cmd_bg    *)
(* look up by id, for an id shell_job_create has returned.                 *)
NamedSlot(argv) ==
    IF JobIdArg(argv) = 0 THEN NULL
    ELSE shell_job_find(shell_jobs, JobIdArg(argv))

(* Every other slot with the pid of slot j is unused, Done or Killed. *)
OnlyLiveWithPid(j) ==
    \A i \in JobSlots \ {j} :
        shell_jobs[i].pid = shell_jobs[j].pid
            => shell_jobs[i].id = 0 \/ IsTerminal(shell_jobs[i].state)

(* The pid is the pid of a job shell_job_create has made. *)
PidOfCreatedJob(pid) ==
    \E i \in JobSlots : shell_jobs[i].id # 0 /\ shell_jobs[i].pid = pid

(* The builtin went on with slot j alone: no other slot is written, the   *)
(* call is suspended on no other slot, and resume() is called exactly     *)
(* when job j is stopped.                                                  *)
ActedOn(j) ==
    /\ \A i \in JobSlots \ {j} : shell_jobs'[i] = shell_jobs[i]
    /\ cur' \in {NULL, j}
    /\ (last'.resumes # <<>>) <=> NeedsResume(shell_jobs[j])

(* C39: the fg and bg builtins act on the job they name.  For every job    *)
(* id J that shell_job_create returned and whose slot still carries it,    *)
(* `fg J` and `bg J` read and modify only the slot with id J, also when    *)
(* another slot (unused, Done or Killed) carries the same pid; and         *)
(* shell_fg / shell_bg with a pid of no created job return SYSERR, modify  *)
(* no slot and do not block.                                               *)
C39_FgBgActOnNamedJob ==
    [][/\ \A a \in JobArgs :
            /\ pc = "idle"
            /\ NamedSlot(<<<<"f", "g">>>> \o a) # NULL
            /\ OnlyLiveWithPid(NamedSlot(<<<<"f", "g">>>> \o a))
            /\ cmd_fg(<<<<"f", "g">>>> \o a) \/ cmd_bg(<<<<"b", "g">>>> \o a)
            => ActedOn(NamedSlot(<<<<"f", "g">>>> \o a))
       /\ \A pid \in Pids :
            /\ pc = "idle"
            /\ ~PidOfCreatedJob(pid)
            /\ shell_fg(pid) \/ shell_bg(pid)
            => /\ shell_jobs' = shell_jobs
               /\ pc' = "idle"
               /\ last'.ret = Ret(SYSERR)]_vars

====
